---- MODULE Spec2Model ----
(***************************************************************************)
(* A model of notemancy-core's synchronization and retrieval subsystem:    *)
(* the vault scanner (src/scan/mod.rs), the relational metadata store      *)
(* (src/db/mod.rs), the LanceDB embedding store (src/embeddings.rs) and    *)
(* the serial embedding indexer (src/vec_indexer.rs).                      *)
(*                                                                         *)
(* Strings are sequences of tokens.  A token is either one of the special  *)
(* characters the code treats specially ("/", ".", "'", ",", "|", the JSON *)
(* punctuation) or an atom standing for a run of ordinary characters.      *)
(* Formatting, joining, splitting and parsing are computed on these        *)
(* sequences the way the code computes them on strings.                    *)
(***************************************************************************)
EXTENDS Integers, Sequences, FiniteSets, TLC

VARIABLES
    disk,        \* the filesystem: path -> the file there
    pagetable,   \* MetadataStore: the rows of pagetable
    attachments, \* MetadataStore: the rows of attachments
    pageSeq,     \* the AUTOINCREMENT counter of pagetable
    attSeq,      \* the AUTOINCREMENT counter of attachments
    lastPage,    \* history: per physical path, the latest add_page call
    lastAtt,     \* history: per physical path, the latest add_attachment call
    tables,      \* LanceDB connection: table name -> table state
    res,         \* the outcome of the last EmbeddingStore call
    deleted,     \* history: per table, ids whose delete returned Ok and that were not added since
    indexed,     \* history: per embedding id, the index runs that stored it
    ret,         \* what the last scanner or indexer call returned and reported
    config,      \* the configuration load_config returns
    scanner,     \* the Scanner: its vaults and its indicator
    search_index, \* SearchEngine: the committed documents of the lexical index
    input,       \* the arguments of the call of a function that reads no other state
    progress     \* the indexer run in flight: its counters, its loop and its reporter

scanVars == <<disk, pagetable, attachments, pageSeq, attSeq, lastPage, lastAtt>>
storeVars == <<tables, res, deleted>>
indexVars == <<indexed, progress>>
callVars == <<ret>>
confVars == <<config, scanner, input>>
searchVars == <<search_index>>
vars == <<disk, pagetable, attachments, pageSeq, attSeq, lastPage, lastAtt, tables, res, deleted,
          indexed, ret, config, scanner, search_index, input, progress>>

(***************************************************************************)
(* Generic helpers on sequences                                            *)
(***************************************************************************)
Range(s) == {s[i] : i \in 1..Len(s)}

RECURSIVE Concat(_)
Concat(ss) == IF ss = <<>> THEN <<>> ELSE Head(ss) \o Concat(Tail(ss))

RECURSIVE JoinWith(_, _)
\* [a, b, c].join(sep)
JoinWith(ss, sep) ==
    IF ss = <<>> THEN <<>>
    ELSE IF Len(ss) = 1 THEN Head(ss)
    ELSE Head(ss) \o sep \o JoinWith(Tail(ss), sep)

RECURSIVE SelectRows(_, _)
\* the rows of s, in order, whose index is not in the set drop
SelectRows(s, drop) ==
    IF s = <<>> THEN <<>>
    ELSE LET n == Len(s)
             front == SelectRows(SubSeq(s, 1, n - 1), drop)
         IN IF n \in drop THEN front ELSE Append(front, s[n])

Contains(s, pat) ==
    \E i \in 0..(Len(s) - Len(pat)) : SubSeq(s, i + 1, i + Len(pat)) = pat

Min(S) == CHOOSE x \in S : \A y \in S : x <= y

DQ == "\""
QT == "'"

(***************************************************************************)
(* Paths and frontmatter: src/scan/mod.rs                                  *)
(***************************************************************************)
SLASH == "/"
DOT == "."

RECURSIVE Split(_, _)
\* s.split(sep): the pieces between the separators, empty pieces included
Split(s, sep) ==
    LET hits == {i \in 1..Len(s) : s[i] = sep}
    IN IF hits = {} THEN <<s>>
       ELSE <<SubSeq(s, 1, Min(hits) - 1)>> \o Split(SubSeq(s, Min(hits) + 1, Len(s)), sep)

\* Path::components(): RootDir for a leading separator, then one component
\* per non-empty piece; "." pieces are dropped, ".." is ParentDir
Components(path) ==
    LET pieces == Split(path, SLASH)
        named == SelectSeq(pieces, LAMBDA c : c # <<>> /\ c # <<DOT>>)
        root == IF path # <<>> /\ path[1] = SLASH
                THEN <<[kind |-> "RootDir", name |-> <<SLASH>>]>> ELSE <<>>
    IN root \o [i \in 1..Len(named) |->
                   [kind |-> IF named[i] = <<DOT, DOT>> THEN "ParentDir" ELSE "Normal",
                    name |-> named[i]]]

\* rel_components.iter().collect::<PathBuf>(), then to_string_lossy()
PathOf(names) == JoinWith(names, <<SLASH>>)

RECURSIVE AfterIndicator(_, _, _, _)
\* the loop of extract_relative_path_after_indicator from component i on
AfterIndicator(comps, i, indicator, st) ==
    IF i > Len(comps) THEN st
    ELSE IF st.found
         THEN AfterIndicator(comps, i + 1, indicator,
                             [st EXCEPT !.rel = Append(@, comps[i].name)])
    ELSE IF comps[i].kind = "Normal" /\ comps[i].name = indicator
         THEN AfterIndicator(comps, i + 1, indicator, [st EXCEPT !.found = TRUE])
    ELSE AfterIndicator(comps, i + 1, indicator, st)

\* extract_relative_path_after_indicator: Option<PathBuf>
extract_relative_path_after_indicator(file_path, indicator) ==
    LET st == AfterIndicator(Components(file_path), 1, indicator,
                             [found |-> FALSE, rel |-> <<>>])
    IN [some |-> st.found, path |-> IF st.found THEN PathOf(st.rel) ELSE <<>>]

\* The lines of a file.  A line is the `---` marker, a `key: value` line
\* (the value a string or a number) or any other text.
Dash == [kind |-> "dash", key |-> "", type |-> "", val |-> <<>>]
Text == [kind |-> "text", key |-> "", type |-> "", val |-> <<>>]
KvStr(k, v) == [kind |-> "kv", key |-> k, type |-> "str", val |-> v]
KvNum(k, v) == [kind |-> "kv", key |-> k, type |-> "num", val |-> v]

\* a line `# title`: a heading of the markdown text, a comment for YAML
Heading(t) == [kind |-> "heading", key |-> "", type |-> "", val |-> t]

\* what read_to_string fails on: a file that is not UTF-8 text
Binary == <<[kind |-> "binary", key |-> "", type |-> "", val |-> <<>>]>>

IsText(content) == content # Binary

\* serde_yaml::from_str::<Mapping>(fm_str): the lines must all be key/value
\* lines with distinct keys (an empty block is the empty mapping)
YamlMapping(fm_lines) ==
    LET pairs == SelectSeq(fm_lines, LAMBDA l : l.kind # "heading")
    IN IF /\ \A i \in 1..Len(pairs) : pairs[i].kind = "kv"
          /\ \A i, j \in 1..Len(pairs) : pairs[i].key = pairs[j].key => i = j
       THEN [ok |-> TRUE, entries |-> pairs]
       ELSE [ok |-> FALSE, entries |-> <<>>]

\* extract_yaml_frontmatter: [ok, some, entries]; ok = FALSE is the Err return
extract_yaml_frontmatter(content) ==
    IF ~IsText(content) THEN [ok |-> FALSE, some |-> FALSE, entries |-> <<>>]
    ELSE IF content = <<>> \/ content[1].kind # "dash"
         THEN [ok |-> TRUE, some |-> FALSE, entries |-> <<>>]
    ELSE LET rest == Tail(content)
             closes == {i \in 1..Len(rest) : rest[i].kind = "dash"}
             fm_lines == IF closes = {} THEN rest ELSE SubSeq(rest, 1, Min(closes) - 1)
             m == YamlMapping(fm_lines)
         IN [ok |-> m.ok, some |-> m.ok, entries |-> m.entries]

\* mutant: the folder value is used as written
TrimNothing(f) == f

RECURSIVE TrimEndSlashes(_)
\* folder_str.trim_end_matches('/')
TrimEndSlashes(f) ==
    IF f # <<>> /\ f[Len(f)] = SLASH THEN TrimEndSlashes(SubSeq(f, 1, Len(f) - 1)) ELSE f

\* mapping.get("folder").and_then(as_str): [some, val]
FolderStr(entries) ==
    LET hits == {i \in 1..Len(entries) : entries[i].key = "folder" /\ entries[i].type = "str"}
    IN IF hits = {} THEN [some |-> FALSE, val |-> <<>>]
       ELSE [some |-> TRUE, val |-> entries[Min(hits)].val]

\* serde_json::to_value(mapping) and Value::to_string(): strings quoted,
\* numbers bare; "" when the file has no frontmatter
MetadataString(fm) ==
    IF ~fm.some THEN <<>>
    ELSE <<"{">>
         \o JoinWith([i \in 1..Len(fm.entries) |->
                         <<DQ, fm.entries[i].key, DQ, ":">>
                         \o (IF fm.entries[i].type = "str"
                             THEN <<DQ>> \o fm.entries[i].val \o <<DQ>>
                             ELSE fm.entries[i].val)],
                     <<",">>)
         \o <<"}">>

\* process_file on a file that exists: [ok, sf]; meta is what fs::metadata
\* reports (modified, and created when the platform has it)
process_file(file_path, content, meta, indicator, vault) ==
    LET rel == extract_relative_path_after_indicator(file_path, indicator)
        got == extract_yaml_frontmatter(content)
        \* extract_yaml_frontmatter(file_path).unwrap_or(None)
        frontmatter == IF got.ok THEN got ELSE [ok |-> TRUE, some |-> FALSE, entries |-> <<>>]
        folder == IF frontmatter.some THEN FolderStr(frontmatter.entries)
                  ELSE [some |-> FALSE, val |-> <<>>]
        virtual_path == IF folder.some
                        THEN TrimEndSlashes(folder.val) \o <<SLASH>> \o rel.path
                        ELSE rel.path
    IN IF ~rel.some
       THEN [ok |-> FALSE, err |-> "IndicatorNotFound"]
       ELSE [ok |-> TRUE,
             sf |-> [vault |-> vault,
                     local_path |-> file_path,
                     virtual_path |-> virtual_path,
                     metadata |-> MetadataString(frontmatter),
                     last_modified |-> meta.modified,
                     created |-> IF meta.birth THEN meta.created ELSE meta.modified]]

\* Path::extension(): what follows the last dot of the file name
Extension(path) ==
    LET comps == Components(path)
        name == IF comps = <<>> THEN <<>> ELSE comps[Len(comps)].name
        dots == {i \in 2..Len(name) : name[i] = DOT}
    IN IF comps = <<>> \/ comps[Len(comps)].kind # "Normal" \/ dots = {} THEN <<>>
       ELSE SubSeq(name, Min({i \in dots : \A j \in dots : j <= i}) + 1, Len(name))

\* str::to_lowercase on the atoms the model uses
Lower(tok) ==
    IF tok = "MD" THEN "md" ELSE IF tok = "PNG" THEN "png"
    ELSE IF tok = "Hello" THEN "hello" ELSE IF tok = "Bye" THEN "bye" ELSE tok

LowerStr(str) == [i \in 1..Len(str) |-> Lower(str[i])]

\* Path::starts_with on components: the walk of a root yields what is under it
Under(root, path) ==
    LET r == Components(root)
        c == Components(path)
    IN Len(r) < Len(c) /\ SubSeq(c, 1, Len(r)) = r

MarkdownExts == {<<"md">>, <<"markdown">>}
ImageExts == {<<"png">>, <<"jpg">>, <<"jpeg">>, <<"gif">>, <<"webp">>, <<"svg">>}

\* list_files_with_extension: the files on disk under vault_path whose
\* extension is allowed and whose path holds the indicator
list_files_with_extension(files, vault_path, indicator, allowed_exts) ==
    {f \in files :
        /\ Under(vault_path, f.path)
        /\ Extension(f.path) # <<>>
        /\ LowerStr(Extension(f.path)) \in allowed_exts
        /\ extract_relative_path_after_indicator(f.path, indicator).some}

(***************************************************************************)
(* MetadataStore: src/db/mod.rs                                            *)
(***************************************************************************)
\* mutant: a plain INSERT, no ON CONFLICT clause and no UNIQUE constraint
add_page_insert_only(db, vault, path, virtual_path, metadata, last_modified, created) ==
    [rows |-> db.rows \cup
                 {[id |-> db.seq + 1, vault |-> vault, path |-> path,
                   virtualPath |-> virtual_path, metadata |-> metadata,
                   last_modified |-> last_modified, created |-> created]},
     seq |-> db.seq + 1]

\* Database::add_page: INSERT ... ON CONFLICT(path) DO UPDATE SET virtualPath,
\* metadata, last_modified, created (the vault and the id of the row stay)
add_page(db, vault, path, virtual_path, metadata, last_modified, created) ==
    IF \E r \in db.rows : r.path = path
    THEN [db EXCEPT !.rows =
             {IF r.path = path
              THEN [r EXCEPT !.virtualPath = virtual_path, !.metadata = metadata,
                             !.last_modified = last_modified, !.created = created]
              ELSE r : r \in db.rows}]
    ELSE [rows |-> db.rows \cup
                      {[id |-> db.seq + 1, vault |-> vault, path |-> path,
                        virtualPath |-> virtual_path, metadata |-> metadata,
                        last_modified |-> last_modified, created |-> created]},
          seq |-> db.seq + 1]

\* Database::add_attachment: INSERT ... ON CONFLICT(path) DO UPDATE SET
\* virtualPath, type
add_attachment(db, local_path, virtual_path, file_type) ==
    IF \E r \in db.rows : r.path = local_path
    THEN [db EXCEPT !.rows =
             {IF r.path = local_path
              THEN [r EXCEPT !.virtualPath = virtual_path, !.type = file_type]
              ELSE r : r \in db.rows}]
    ELSE [rows |-> db.rows \cup
                      {[id |-> db.seq + 1, path |-> local_path,
                        virtualPath |-> virtual_path, type |-> file_type]},
          seq |-> db.seq + 1]

\* mutant: the pass deletes every row
cleanup_every_record(rows, files) == {}

\* Database::cleanup_stale_records: DELETE the rows whose path does not exist
cleanup_stale_records(rows, files) ==
    {r \in rows : \E f \in files : f.path = r.path}

(***************************************************************************)
(* Scanner: src/scan/mod.rs                                                *)
(***************************************************************************)
\* general.indicator of the configuration
Indicator == <<"vault">>

Root == <<SLASH, "home">>

\* Scanner.vaults: (vault name, paths)
ScannerVaults == <<[name |-> "main", paths |-> <<Root>>]>>

\* Option values of the configuration
None == [some |-> FALSE, val |-> <<>>]
Some(v) == [some |-> TRUE, val |-> v]

\* the configuration of the vault the scans run on: one default vault
VaultConfig ==
    [indicator |-> Some(Indicator),
     vaults |-> [some |-> TRUE,
                 map |-> ("main" :> [default |-> "true", paths |-> Some(<<Root>>)])]]

\* Scanner::from_config: `order` is the order the HashMap of vaults iterates
\* in.  A vault property `default` is "none" (absent), "true" or "false".
from_config(cfg, order) ==
    LET indicator == IF cfg.indicator.some THEN cfg.indicator.val ELSE <<"notesy">>
        flagged == SelectSeq(order, LAMBDA n : /\ cfg.vaults.map[n].default = "true"
                                              /\ cfg.vaults.map[n].paths.some)
        with_paths == SelectSeq(order, LAMBDA n : cfg.vaults.map[n].paths.some)
        chosen == IF flagged = <<>> THEN with_paths ELSE flagged
    IN [vaults |-> [i \in 1..Len(chosen) |->
                       [name |-> chosen[i], paths |-> cfg.vaults.map[chosen[i]].paths.val]],
        indicator |-> indicator]

\* what fs::metadata reports for a file: the modification time, and the
\* creation time where the platform has one
Metas == {[modified |-> m, birth |-> b, created |-> 1] : m \in {1, 2}, b \in BOOLEAN}

Perms(S) ==
    {o \in [1..Cardinality(S) -> S] : \A i, j \in 1..Cardinality(S) : o[i] = o[j] => i = j}

FileAt(files, path) == CHOOSE f \in files : f.path = path

\* the (vault, file) pairs a scan collects, one per enumeration of a file
ScanTasks(files, exts) ==
    UNION {UNION {{[vault |-> scanner.vaults[v].name,
                    root |-> scanner.vaults[v].paths[r],
                    path |-> f.path] :
                      f \in list_files_with_extension(files, scanner.vaults[v].paths[r],
                                                      scanner.indicator, exts)} :
                  r \in DOMAIN scanner.vaults[v].paths} :
           v \in DOMAIN scanner.vaults}

\* the history entry of a store call for one physical path
Called(last, path, args, content) ==
    LET before == {g \in last : g.path = path}
        n == IF before = {} THEN 0 ELSE (CHOOSE g \in before : TRUE).calls
    IN (last \ before) \cup
           {[path |-> path, args |-> args, content |-> content,
             calls |-> IF n < 2 THEN n + 1 ELSE 2]}

\* what can go wrong for one file of a scan: nothing, process_file fails
\* (fs::metadata on a file that vanished or cannot be read), the insert fails
Faults == {"none", "process", "db"}
NoFaults == {"none"}

\* the return of a call, before any call
NoRet ==
    [op |-> "none", ok |-> TRUE, candidates |-> {}, scanned |-> {}, errors |-> {},
     selected |-> 0, processed |-> 0, succeeded |-> 0, failed |-> 0,
     virtual_path |-> <<>>, content |-> <<>>, metadata |-> <<>>, out |-> <<>>,
     path |-> <<>>]

\* no arguments: the call reads the stores and the filesystem only
NoArgs == <<>>

\* no indexer run in flight: the counters of a run, what the reporter read of them, the
\* position of the loop and of the reporter, and the completion line once printed
NoRun ==
    [total_files |-> 0, processed_count |-> 0, success_count |-> 0, error_count |-> 0,
     current |-> 0, successes |-> 0, errors |-> 0,
     run |-> "idle", reporter |-> "none", completion |-> <<>>]

\* mutant: a file whose insert failed is reported as scanned as well
MarkdownTaskKeepsFailed(t, files, fault, st) ==
    LET content == FileAt(files, t.path).content
        pf == process_file(t.path, content, FileAt(files, t.path).meta, scanner.indicator,
                           t.vault)
    IN IF ~pf.ok \/ fault = "process"
       THEN [st EXCEPT !.errors = @ \cup {[task |-> t, msg |-> "Processing error"]}]
       ELSE IF fault = "db"
       THEN [st EXCEPT !.errors = @ \cup {[task |-> t, msg |-> "DB insert error"]},
                       !.scanned = @ \cup {t}]
       ELSE [db |-> add_page(st.db, t.vault, pf.sf.local_path, pf.sf.virtual_path,
                             pf.sf.metadata, pf.sf.last_modified, pf.sf.created),
             last |-> Called(st.last, pf.sf.local_path,
                             [virtual_path |-> pf.sf.virtual_path,
                              metadata |-> pf.sf.metadata,
                              last_modified |-> pf.sf.last_modified,
                              created |-> pf.sf.created], content),
             scanned |-> st.scanned \cup {t},
             errors |-> st.errors]

\* one task of scan_markdown_files: process_file, then add_page under the
\* lock; the task ends in scanned_files or in errors
MarkdownTask(t, files, fault, st) ==
    LET content == FileAt(files, t.path).content
        pf == process_file(t.path, content, FileAt(files, t.path).meta, scanner.indicator,
                           t.vault)
    IN IF ~pf.ok \/ fault = "process"
       THEN [st EXCEPT !.errors = @ \cup {[task |-> t, msg |-> "Processing error"]}]
       ELSE IF fault = "db"
       THEN [st EXCEPT !.errors = @ \cup {[task |-> t, msg |-> "DB insert error"]}]
       ELSE [db |-> add_page(st.db, t.vault, pf.sf.local_path, pf.sf.virtual_path,
                             pf.sf.metadata, pf.sf.last_modified, pf.sf.created),
             last |-> Called(st.last, pf.sf.local_path,
                             [virtual_path |-> pf.sf.virtual_path,
                              metadata |-> pf.sf.metadata,
                              last_modified |-> pf.sf.last_modified,
                              created |-> pf.sf.created], content),
             scanned |-> st.scanned \cup {t},
             errors |-> st.errors]

RECURSIVE MarkdownTasks(_, _, _, _, _)
\* the tasks of scan_markdown_files in the order the workers take the
\* database lock
MarkdownTasks(ord, i, files, faults, st) ==
    IF i > Len(ord) THEN st
    ELSE MarkdownTasks(ord, i + 1, files, faults,
                       MarkdownTask(ord[i], files, faults[ord[i]], st))

\* one file of scan_images: process_file, then add_attachment with type
\* image; the file is pushed to scanned_files whatever add_attachment returns
ImageTask(t, files, fault, st) ==
    LET content == FileAt(files, t.path).content
        pf == process_file(t.path, content, FileAt(files, t.path).meta, scanner.indicator,
                           t.vault)
    IN IF ~pf.ok \/ fault = "process"
       THEN [st EXCEPT !.errors = @ \cup {[task |-> t, msg |-> "Processing error"]}]
       ELSE IF fault = "db"
       THEN [st EXCEPT !.errors = @ \cup {[task |-> t, msg |-> "DB insert error"]},
                       !.scanned = @ \cup {t}]
       ELSE [db |-> add_attachment(st.db, pf.sf.local_path, pf.sf.virtual_path, <<"image">>),
             last |-> Called(st.last, pf.sf.local_path,
                             [virtual_path |-> pf.sf.virtual_path, type |-> <<"image">>],
                             content),
             scanned |-> st.scanned \cup {t},
             errors |-> st.errors]

RECURSIVE ImageTasks(_, _, _, _, _)
\* the loop of scan_images over the files in the order of the walk
ImageTasks(ord, i, files, faults, st) ==
    IF i > Len(ord) THEN st
    ELSE ImageTasks(ord, i + 1, files, faults, ImageTask(ord[i], files, faults[ord[i]], st))

\* Scanner::scan_markdown_files, in an environment where the files of the
\* scan can meet the faults of `kinds`
ScanMarkdownFiles(kinds) ==
    LET tasks == ScanTasks(disk, MarkdownExts)
    IN /\ \E ord \in Perms(tasks), faults \in [tasks -> kinds] :
             LET st == MarkdownTasks(ord, 1, disk, faults,
                                     [db |-> [rows |-> pagetable, seq |-> pageSeq],
                                      last |-> lastPage, scanned |-> {}, errors |-> {}])
             IN /\ pagetable' = st.db.rows
                /\ pageSeq' = st.db.seq
                /\ lastPage' = st.last
                /\ ret' = [NoRet EXCEPT !.op = "scan_markdown_files", !.candidates = tasks,
                                        !.scanned = st.scanned, !.errors = st.errors]
       /\ UNCHANGED <<confVars, searchVars, disk, attachments, attSeq, lastAtt, storeVars, indexVars>>

\* Scanner::scan_images, in an environment where the files of the scan can
\* meet the faults of `kinds`
ScanImages(kinds) ==
    LET tasks == ScanTasks(disk, ImageExts)
    IN /\ \E ord \in Perms(tasks), faults \in [tasks -> kinds] :
             LET st == ImageTasks(ord, 1, disk, faults,
                                  [db |-> [rows |-> attachments, seq |-> attSeq],
                                   last |-> lastAtt, scanned |-> {}, errors |-> {}])
             IN /\ attachments' = st.db.rows
                /\ attSeq' = st.db.seq
                /\ lastAtt' = st.last
                /\ ret' = [NoRet EXCEPT !.op = "scan_images", !.candidates = tasks,
                                        !.scanned = st.scanned, !.errors = st.errors]
       /\ UNCHANGED <<confVars, searchVars, disk, pagetable, pageSeq, lastPage, storeVars, indexVars>>

\* the row ids the model follows: a cleanup pass runs while the AUTOINCREMENT
\* counter of pagetable is below it
MaxPageId == 3

\* Database::cleanup_stale_records
CleanupStaleRecords ==
    /\ pageSeq < MaxPageId
    /\ pagetable' = cleanup_stale_records(pagetable, disk)
    /\ ret' = [NoRet EXCEPT !.op = "cleanup_stale_records"]
    /\ UNCHANGED <<confVars, searchVars, disk, attachments, pageSeq, attSeq, lastPage, lastAtt,
                   storeVars, indexVars>>

\* the environment writes a file
WriteFile(path, content, meta) ==
    /\ [path |-> path, content |-> content, meta |-> meta] \notin disk
    /\ disk' = {f \in disk : f.path # path}
                   \cup {[path |-> path, content |-> content, meta |-> meta]}
    /\ UNCHANGED <<confVars, searchVars, pagetable, attachments, pageSeq, attSeq, lastPage, lastAtt, storeVars, indexVars,
                 callVars>>

\* the environment removes a file
RemoveFile(path) ==
    /\ \E f \in disk : f.path = path
    /\ disk' = {f \in disk : f.path # path}
    /\ UNCHANGED <<confVars, searchVars, pagetable, attachments, pageSeq, attSeq, lastPage, lastAtt, storeVars, indexVars,
                 callVars>>

Plain == <<Text>>
FmTitle == <<Dash, KvStr("title", <<"Test">>), Dash, Text>>
FmProjects == <<Dash, KvStr("folder", <<"projects", SLASH>>), Dash, Text>>
FmVault == <<Dash, KvStr("folder", Indicator), Dash, Text>>
FmNumber == <<Dash, KvNum("folder", <<"3">>), Dash, Text>>
FmNotYaml == <<Dash, Text, Dash>>
FmOpen == <<Dash, KvStr("folder", <<"projects">>)>>

NoteA == <<SLASH, "home", SLASH, "vault", SLASH, "notes", SLASH, "a", DOT, "md">>
NoteB == <<SLASH, "home", SLASH, "vault", SLASH, "vault", SLASH, "b", DOT, "md">>
NoteUpper == <<SLASH, "home", SLASH, "vault", SLASH, "c", DOT, "MD">>
NoteOutside == <<SLASH, "home", SLASH, "docs", SLASH, "d", DOT, "md">>
NoExtension == <<SLASH, "home", SLASH, "vault", SLASH, "notes", SLASH, "e">>
Picture == <<SLASH, "home", SLASH, "vault", SLASH, "p", DOT, "png">>

FirstWrite == [modified |-> 1, birth |-> TRUE, created |-> 1]
SecondWrite == [modified |-> 2, birth |-> TRUE, created |-> 1]

\* the files the environment writes while scans repeat, with their contents
Written ==
    {[path |-> NoteA, content |-> Plain, meta |-> FirstWrite],
     [path |-> NoteA, content |-> FmProjects, meta |-> SecondWrite],
     [path |-> NoteB, content |-> FmTitle, meta |-> FirstWrite],
     [path |-> Picture, content |-> Binary, meta |-> FirstWrite]}

(***************************************************************************)
(* EmbeddingStore: src/embeddings.rs                                       *)
(***************************************************************************)
\* EmbeddingStoreConfig.embedding_dim, the store's configured dimension
EmbeddingDim == 2

\* the one table the callers use
TableNames == {"embeddings"}

\* the null entry of the FixedSizeList column
NullVec == <<>>

BSL == "\\"

\* serde_json's string escaping: a backslash before a quote or a backslash
JsonEscape(v) ==
    Concat([i \in 1..Len(v) |-> IF v[i] = DQ \/ v[i] = BSL THEN <<BSL, v[i]>> ELSE <<v[i]>>])

RECURSIVE JsonMembers(_, _)
\* one "key":"value" member per entry of the map; a HashMap iterates in an
\* arbitrary but fixed order
JsonMembers(md, keys) ==
    IF keys = {} THEN <<>>
    ELSE LET k == CHOOSE x \in keys : TRUE
         IN <<(<<DQ, k, DQ, ":", DQ>> \o JsonEscape(md[k]) \o <<DQ>>)>>
            \o JsonMembers(md, keys \ {k})

\* serde_json::to_string(&e.metadata)
ToJson(md) == <<"{">> \o JoinWith(JsonMembers(md, DOMAIN md), <<",">>) \o <<"}">>

EmptyMap == <<>>

RECURSIVE JsonString(_, _, _)
\* the body of a JSON string from token j on, up to the closing quote: a
\* backslash takes the character after it
JsonString(js, j, acc) ==
    IF j > Len(js) THEN [ok |-> FALSE, close |-> j, val |-> acc]
    ELSE IF js[j] = DQ THEN [ok |-> TRUE, close |-> j, val |-> acc]
    ELSE IF js[j] = BSL
         THEN IF j + 1 > Len(js) THEN [ok |-> FALSE, close |-> j, val |-> acc]
              ELSE JsonString(js, j + 2, Append(acc, js[j + 1]))
    ELSE JsonString(js, j + 1, Append(acc, js[j]))

RECURSIVE ParseMembers(_, _, _)
\* the members of a JSON object of strings, from token i on
ParseMembers(js, i, acc) ==
    IF i > Len(js) THEN [ok |-> FALSE, map |-> EmptyMap]
    ELSE IF js[i] = "}" THEN [ok |-> (i = Len(js)), map |-> acc]
    ELSE IF i + 4 > Len(js) \/ js[i] # DQ \/ js[i + 2] # DQ \/ js[i + 3] # ":" \/ js[i + 4] # DQ
         THEN [ok |-> FALSE, map |-> EmptyMap]
    ELSE LET str == JsonString(js, i + 5, <<>>)
         IN IF ~str.ok THEN [ok |-> FALSE, map |-> EmptyMap]
            ELSE LET j == str.close
                     k == js[i + 1]
                     v == str.val
                     acc2 == [x \in (DOMAIN acc) \cup {k} |-> IF x = k THEN v ELSE acc[x]]
                 IN IF j + 1 <= Len(js) /\ js[j + 1] = ","
                    THEN ParseMembers(js, j + 2, acc2)
                    ELSE ParseMembers(js, j + 1, acc2)

\* serde_json::from_str(metadata_json).unwrap_or_else(|_| HashMap::new())
FromJson(js) ==
    IF js = <<>> \/ js[1] # "{" THEN EmptyMap
    ELSE LET m == ParseMembers(js, 2, EmptyMap)
         IN IF m.ok THEN m.map ELSE EmptyMap

\* a table that is not in connection.table_names()
AbsentTable ==
    [exists |-> FALSE, rows |-> <<>>, indexTriggers |-> 0, inserted |-> FALSE]

\* the table create_table makes: the schema and one empty batch, no index
EmptyTable ==
    [exists |-> TRUE, rows |-> <<>>, indexTriggers |-> 0, inserted |-> FALSE]

\* LanceDBStore::table_exists
table_exists(tb) == tb.exists

\* mutant: the table is made anew whether it exists or not
create_table_anew(tb) == EmptyTable

\* LanceDBStore::create_table: a no-op on a table that exists
create_table(tb) == IF table_exists(tb) THEN tb ELSE EmptyTable

\* one record of the batch as add_embeddings lays it out in the Arrow columns:
\* a vector of the wrong length becomes a null entry of the embedding column
ToRow(e) ==
    [id |-> e.id,
     embedding |-> IF Len(e.embedding) # EmbeddingDim THEN NullVec ELSE e.embedding,
     metadata_json |-> ToJson(e.metadata)]

\* LanceDBStore::add_embeddings.  indexTriggers counts the calls that reach the
\* index construction of lines 244-277 (create_optimized_index, and the
\* fallback when it fails; a failure of both is only logged)
add_embeddings(tb, batch) ==
    IF batch = <<>> THEN tb
    ELSE LET table_existed == table_exists(tb)
             opened == IF table_existed THEN tb ELSE create_table(tb)
             added == [opened EXCEPT
                          !.rows = @ \o [i \in 1..Len(batch) |-> ToRow(batch[i])],
                          !.inserted = TRUE]
         IN IF ~table_existed
            THEN [added EXCEPT !.indexTriggers = @ + 1]
            ELSE added

\* format!("id IN ({})", ids.map(|id| format!("'{}'", id)).join(","))
DeleteFilter(ids) ==
    <<"id IN (">>
        \o JoinWith([i \in 1..Len(ids) |-> <<QT>> \o ids[i] \o <<QT>>], <<",">>)
        \o <<")">>

RECURSIVE SqlStringBody(_, _, _)
\* the backend's SQL lexer inside a string literal, from token i on: two
\* quotes are one escaped quote, one quote ends the literal
SqlStringBody(f, i, acc) ==
    IF i > Len(f) THEN [ok |-> FALSE, lit |-> acc, next |-> i]
    ELSE IF f[i] = QT
         THEN IF i + 1 <= Len(f) /\ f[i + 1] = QT
              THEN SqlStringBody(f, i + 2, Append(acc, QT))
              ELSE [ok |-> TRUE, lit |-> acc, next |-> i + 1]
    ELSE SqlStringBody(f, i + 1, Append(acc, f[i]))

RECURSIVE SqlInList(_, _, _)
\* the backend's SQL parser on the list of `id IN ( ... )`: literals
\* separated by commas, closed by the parenthesis that ends the predicate
SqlInList(f, i, lits) ==
    IF i > Len(f) \/ f[i] # QT THEN [ok |-> FALSE, lits |-> {}]
    ELSE LET b == SqlStringBody(f, i + 1, <<>>)
         IN IF ~b.ok \/ b.next > Len(f) THEN [ok |-> FALSE, lits |-> {}]
            ELSE IF f[b.next] = "," THEN SqlInList(f, b.next + 1, lits \cup {b.lit})
            ELSE IF f[b.next] = ")" /\ b.next = Len(f)
                 THEN [ok |-> TRUE, lits |-> lits \cup {b.lit}]
            ELSE [ok |-> FALSE, lits |-> {}]

\* the predicate table.delete(filter) evaluates: the ids it matches, or a
\* parse error
SqlParseDelete(f) ==
    IF f = <<>> \/ f[1] # "id IN (" THEN [ok |-> FALSE, lits |-> {}]
    ELSE SqlInList(f, 2, {})

\* LanceDBStore::delete_embeddings: [ok, table]
delete_embeddings(tb, ids) ==
    IF ids = <<>> THEN [ok |-> TRUE, table |-> tb]
    ELSE IF ~table_exists(tb) THEN [ok |-> TRUE, table |-> tb]
    ELSE LET p == SqlParseDelete(DeleteFilter(ids))
         IN IF ~p.ok THEN [ok |-> FALSE, table |-> tb]
            ELSE [ok |-> TRUE,
                  table |-> [tb EXCEPT !.rows =
                      SelectRows(@, {i \in 1..Len(@) : @[i].id \in p.lits})]]

\* mutant: the drop reports success and leaves the table
drop_table_kept(tb) == [ok |-> TRUE, table |-> tb]

\* LanceDBStore::drop_table: the connection fails on a table it does not have
drop_table(tb) ==
    IF tb.exists THEN [ok |-> TRUE, table |-> AbsentTable]
    ELSE [ok |-> FALSE, table |-> tb]

RECURSIVE SumSq(_, _, _)
SumSq(a, b, n) == IF n = 0 THEN 0 ELSE (a[n] - b[n]) * (a[n] - b[n]) + SumSq(a, b, n - 1)

\* the backend's default metric (squared L2), the _distance column
Distance(a, b) == SumSq(a, b, EmbeddingDim)

NoFilter == [some |-> FALSE, like |-> <<>>]

\* a backend-native predicate `metadata_json LIKE '%pattern%'` on one row
FilterMatches(row, filter) == ~filter.some \/ Contains(row.metadata_json, filter.like)

RECURSIVE Nearest(_, _, _, _)
\* the k candidates nearest to q, nearest first (ties in table order)
Nearest(rows, q, cand, k) ==
    IF k = 0 \/ cand = {} THEN <<>>
    ELSE LET best == CHOOSE i \in cand : \A j \in cand :
                        \/ Distance(rows[i].embedding, q) < Distance(rows[j].embedding, q)
                        \/ /\ Distance(rows[i].embedding, q) = Distance(rows[j].embedding, q)
                           /\ i <= j
         IN <<best>> \o Nearest(rows, q, cand \ {best}, k - 1)

\* table.query().only_if(filter).nearest_to(q).limit(k).execute(): the rows
\* that pass the filter and have a vector, by increasing distance
VectorQuery(tb, q, filter, k) ==
    LET cand == {i \in 1..Len(tb.rows) :
                    tb.rows[i].embedding # NullVec /\ FilterMatches(tb.rows[i], filter)}
        order == Nearest(tb.rows, q, cand, k)
    IN [n \in 1..Len(order) |->
           [id |-> tb.rows[order[n]].id,
            embedding |-> tb.rows[order[n]].embedding,
            metadata_json |-> tb.rows[order[n]].metadata_json,
            distance |-> Distance(tb.rows[order[n]].embedding, q)]]

\* (limit as f32 * 1.5) as usize
search_limit(limit) == (limit * 3) \div 2

\* mutant: the result is not cut to limit
TruncateNoCut(s, n) == s

\* mutant: the cut drops the head of the list instead of its tail
TruncateKeepTail(s, n) == SubSeq(s, Len(s) - (IF n < Len(s) THEN n ELSE Len(s)) + 1, Len(s))

\* results.truncate(limit)
Truncate(s, n) == SubSeq(s, 1, IF n < Len(s) THEN n ELSE Len(s))

\* LanceDBStore::similarity_search: [ok, err, out]
similarity_search(tb, q, limit, filter) ==
    IF ~table_exists(tb) THEN [ok |-> TRUE, err |-> "", out |-> <<>>]
    ELSE IF Len(q) # EmbeddingDim
         THEN [ok |-> FALSE, err |-> "DimensionMismatch", out |-> <<>>]
    ELSE LET batch == VectorQuery(tb, q, filter, search_limit(limit))
             results == [n \in 1..Len(batch) |->
                            [id |-> batch[n].id,
                             embedding |-> batch[n].embedding,
                             metadata |-> FromJson(batch[n].metadata_json),
                             distance |-> batch[n].distance]]
         IN [ok |-> TRUE, err |-> "", out |-> Truncate(results, limit)]

(***************************************************************************)
(* The EmbeddingStore calls as actions, with the inputs of a caller        *)
(***************************************************************************)
\* the largest table the model follows
MaxRows == 3

\* the index runs the model follows for one embedding id
MaxRuns == 2

Science == ("category" :> <<"science">>)
History == ("category" :> <<"history">>)

\* the records callers submit: a well-formed one, one whose id holds quote
\* characters (as an id built from a file path may), one whose vector is too
\* short
StoreDocs ==
    { [id |-> <<"doc1">>, embedding |-> <<1, 0>>, metadata |-> Science],
      [id |-> <<"it", QT, QT, "s">>, embedding |-> <<1, 1>>, metadata |-> History],
      [id |-> <<"doc3">>, embedding |-> <<1>>, metadata |-> Science] }

Doc(id) == CHOOSE d \in StoreDocs : d.id = id

Batches ==
    {<<>>} \cup {<<d>> : d \in StoreDocs}
           \cup {<<Doc(<<"doc1">>), Doc(<<"it", QT, QT, "s">>)>>,
                 <<Doc(<<"doc3">>), Doc(<<"doc1">>)>>}

IdLists ==
    {<<>>, <<<<"doc1">>>>, <<<<"it", QT, QT, "s">>>>, <<<<"doc1">>, <<"it", QT, QT, "s">>>>}

\* a query vector of the configured length, and one that is too short
Queries == {<<1, 0>>, <<1>>}

Limits == 0..2

Filters == {NoFilter, [some |-> TRUE, like |-> <<"science">>]}

NoRes ==
    [op |-> "none", table |-> "", ok |-> TRUE, err |-> "", batch |-> <<>>, ids |-> <<>>,
     query |-> <<>>, limit |-> 0, filter |-> NoFilter, out |-> <<>>]

CreateTable(t) ==
    /\ tables' = [tables EXCEPT ![t] = create_table(@)]
    /\ res' = [NoRes EXCEPT !.op = "create_table", !.table = t]
    /\ UNCHANGED <<confVars, searchVars, deleted, scanVars, indexVars, callVars>>

DropTable(t) ==
    LET r == drop_table(tables[t])
    IN /\ tables' = [tables EXCEPT ![t] = r.table]
       /\ res' = [NoRes EXCEPT !.op = "drop_table", !.table = t, !.ok = r.ok]
       /\ deleted' = IF r.ok THEN [deleted EXCEPT ![t] = {}] ELSE deleted
       /\ UNCHANGED <<confVars, searchVars, scanVars, indexVars, callVars>>

AddEmbeddings(t, batch) ==
    /\ Len(tables[t].rows) + Len(batch) <= MaxRows
    /\ tables' = [tables EXCEPT ![t] = add_embeddings(@, batch)]
    /\ res' = [NoRes EXCEPT !.op = "add_embeddings", !.table = t, !.batch = batch]
    /\ deleted' = [deleted EXCEPT ![t] = @ \ {batch[i].id : i \in 1..Len(batch)}]
    /\ UNCHANGED <<confVars, searchVars, scanVars, indexVars, callVars>>

DeleteEmbeddings(t, ids) ==
    LET r == delete_embeddings(tables[t], ids)
    IN /\ tables' = [tables EXCEPT ![t] = r.table]
       /\ res' = [NoRes EXCEPT !.op = "delete_embeddings", !.table = t, !.ok = r.ok,
                               !.ids = ids]
       /\ deleted' = IF r.ok /\ tables[t].exists
                     THEN [deleted EXCEPT ![t] = @ \cup Range(ids)]
                     ELSE deleted
       /\ UNCHANGED <<confVars, searchVars, scanVars, indexVars, callVars>>

SimilaritySearch(t, q, limit, filter) ==
    LET r == similarity_search(tables[t], q, limit, filter)
    IN /\ res' = [NoRes EXCEPT !.op = "similarity_search", !.table = t, !.ok = r.ok,
                               !.err = r.err, !.query = q, !.limit = limit,
                               !.filter = filter, !.out = r.out]
       /\ UNCHANGED <<confVars, searchVars, tables, deleted, scanVars, indexVars, callVars>>

StoreInit ==
    /\ tables = [t \in TableNames |-> AbsentTable]
    /\ res = NoRes
    /\ deleted = [t \in TableNames |-> {}]
    /\ indexed = {}
    /\ progress = NoRun
    /\ ret = NoRet
    /\ search_index = <<>>
    /\ input = NoArgs
    /\ config = VaultConfig
    /\ scanner = [vaults |-> ScannerVaults, indicator |-> Indicator]
    /\ disk = {}
    /\ pagetable = {}
    /\ attachments = {}
    /\ pageSeq = 0
    /\ attSeq = 0
    /\ lastPage = {}
    /\ lastAtt = {}

StoreNext ==
    \E t \in TableNames :
        \/ CreateTable(t)
        \/ DropTable(t)
        \/ \E batch \in Batches : AddEmbeddings(t, batch)
        \/ \E ids \in IdLists : DeleteEmbeddings(t, ids)
        \/ \E q \in Queries, limit \in Limits, filter \in Filters :
              SimilaritySearch(t, q, limit, filter)

SpecStore == StoreInit /\ [][StoreNext]_vars

(***************************************************************************)
(* The scanner behaviours                                                 *)
(***************************************************************************)
ScanInit ==
    /\ disk = {}
    /\ pagetable = {}
    /\ attachments = {}
    /\ pageSeq = 0
    /\ attSeq = 0
    /\ lastPage = {}
    /\ lastAtt = {}
    /\ tables = [t \in TableNames |-> AbsentTable]
    /\ res = NoRes
    /\ deleted = [t \in TableNames |-> {}]
    /\ indexed = {}
    /\ progress = NoRun
    /\ ret = NoRet
    /\ search_index = <<>>
    /\ input = NoArgs
    /\ config = VaultConfig
    /\ scanner = [vaults |-> ScannerVaults, indicator |-> Indicator]

ScanNext ==
    \/ \E f \in Written : WriteFile(f.path, f.content, f.meta)
    \/ \E f \in Written : RemoveFile(f.path)
    \/ ScanMarkdownFiles(NoFaults)
    \/ ScanImages(NoFaults)

\* repeated scans of a vault whose files change between them
SpecScan == ScanInit /\ [][ScanNext]_vars

\* what a vault of the configuration file can say
VaultProps ==
    {[default |-> d, paths |-> p] : d \in {"none", "true", "false"},
                                     p \in {None, Some(<<Root>>)}}

\* the configurations load_config can return: no vaults section, or a
\* section with some of the vaults main and work
Configs ==
    {[indicator |-> i, vaults |-> [some |-> FALSE, map |-> <<>>]] :
        i \in {None, Some(Indicator)}}
    \cup {[indicator |-> i, vaults |-> [some |-> TRUE, map |-> m]] :
             i \in {None, Some(Indicator)},
             m \in UNION {[names -> VaultProps] : names \in SUBSET {"main", "work"}}}

\* Scanner::from_config()
FromConfig ==
    /\ \E order \in Perms(DOMAIN config.vaults.map) :
          scanner' = from_config(config, order)
    /\ ret' = [NoRet EXCEPT !.op = "from_config"]
    /\ UNCHANGED <<config, input, searchVars, scanVars, storeVars, indexVars>>

ConfigInit ==
    /\ config \in Configs
    /\ scanner = [vaults |-> <<>>, indicator |-> <<>>]
    /\ disk = {}
    /\ pagetable = {}
    /\ attachments = {}
    /\ pageSeq = 0
    /\ attSeq = 0
    /\ lastPage = {}
    /\ lastAtt = {}
    /\ tables = [t \in TableNames |-> AbsentTable]
    /\ res = NoRes
    /\ deleted = [t \in TableNames |-> {}]
    /\ indexed = {}
    /\ progress = NoRun
    /\ ret = NoRet
    /\ search_index = <<>>
    /\ input = NoArgs

ConfigNext == FromConfig

\* a Scanner built from any configuration
SpecConfig == ConfigInit /\ [][ConfigNext]_vars

\* a vault of two notes and a picture, scanned again and again while files
\* fail to be processed or stored
ScanFaultsInit ==
    /\ disk = {[path |-> NoteA, content |-> FmProjects, meta |-> FirstWrite],
               [path |-> NoteB, content |-> Plain, meta |-> FirstWrite],
               [path |-> Picture, content |-> Binary, meta |-> FirstWrite]}
    /\ pagetable = {}
    /\ attachments = {}
    /\ pageSeq = 0
    /\ attSeq = 0
    /\ lastPage = {}
    /\ lastAtt = {}
    /\ tables = [t \in TableNames |-> AbsentTable]
    /\ res = NoRes
    /\ deleted = [t \in TableNames |-> {}]
    /\ indexed = {}
    /\ progress = NoRun
    /\ ret = NoRet
    /\ search_index = <<>>
    /\ input = NoArgs
    /\ config = VaultConfig
    /\ scanner = [vaults |-> ScannerVaults, indicator |-> Indicator]

ScanFaultsNext == ScanMarkdownFiles(Faults) \/ ScanImages(Faults)

SpecScanFaults == ScanFaultsInit /\ [][ScanFaultsNext]_vars

\* the tasks in the order scan_markdown_files collects them: vault by vault,
\* root by root, each root in the order of its walk (some fixed order)
TaskOrder(tasks) ==
    LET at(t) == CHOOSE v \in DOMAIN scanner.vaults : scanner.vaults[v].name = t.vault
        root(t) == CHOOSE r \in DOMAIN scanner.vaults[at(t)].paths :
                      scanner.vaults[at(t)].paths[r] = t.root
    IN CHOOSE ord \in Perms(tasks) :
          \A i, j \in 1..Len(ord) :
             i < j => \/ at(ord[i]) < at(ord[j])
                      \/ at(ord[i]) = at(ord[j]) /\ root(ord[i]) <= root(ord[j])

\* two vaults that list the same root
TwoVaultsInit ==
    /\ disk = {}
    /\ pagetable = {}
    /\ attachments = {}
    /\ pageSeq = 0
    /\ attSeq = 0
    /\ lastPage = {}
    /\ lastAtt = {}
    /\ tables = [t \in TableNames |-> AbsentTable]
    /\ res = NoRes
    /\ deleted = [t \in TableNames |-> {}]
    /\ indexed = {}
    /\ progress = NoRun
    /\ ret = NoRet
    /\ search_index = <<>>
    /\ input = NoArgs
    /\ config = VaultConfig
    /\ scanner = [vaults |-> <<[name |-> "main", paths |-> <<Root>>],
                               [name |-> "work", paths |-> <<Root>>]>>,
                  indicator |-> Indicator]

TwoVaultsNext ==
    \/ \E f \in Written : WriteFile(f.path, f.content, f.meta)
    \/ \E f \in Written : RemoveFile(f.path)
    \/ ScanMarkdownFiles(NoFaults)

\* scans by parallel workers of two vaults that share their files
SpecTwoVaults == TwoVaultsInit /\ [][TwoVaultsNext]_vars

\* one file of any kind in the vault, scanned
ScanOneInit ==
    /\ \E path \in {NoteA, NoteB, NoteUpper, NoteOutside, NoExtension, Picture},
          content \in {Plain, FmTitle, FmProjects, FmVault, FmNumber, FmNotYaml, FmOpen, Binary},
          meta \in Metas :
          disk = {[path |-> path, content |-> content, meta |-> meta]}
    /\ pagetable = {}
    /\ attachments = {}
    /\ pageSeq = 0
    /\ attSeq = 0
    /\ lastPage = {}
    /\ lastAtt = {}
    /\ tables = [t \in TableNames |-> AbsentTable]
    /\ res = NoRes
    /\ deleted = [t \in TableNames |-> {}]
    /\ indexed = {}
    /\ progress = NoRun
    /\ ret = NoRet
    /\ search_index = <<>>
    /\ input = NoArgs
    /\ config = VaultConfig
    /\ scanner = [vaults |-> ScannerVaults, indicator |-> Indicator]

ScanOneNext == ScanMarkdownFiles(NoFaults) \/ ScanImages(NoFaults)

SpecScanOne == ScanOneInit /\ [][ScanOneNext]_vars

(***************************************************************************)
(* Indexer: src/vec_indexer.rs                                             *)
(***************************************************************************)
\* the tokens of the model in the byte order of the strings they stand for
TokenOrder ==
    <<QT, DOT, SLASH, "MD", "a", "b", "c", "d", "docs", "e", "home", "md", "notes",
      "o", "p", "png", "projects", "q", "vault", "|">>

TokenRank(tok) == Min({i \in 1..Len(TokenOrder) : TokenOrder[i] = tok})

RECURSIVE StrLess(_, _)
\* a < b for strings (SQLite's BINARY collation)
StrLess(a, b) ==
    IF b = <<>> THEN FALSE
    ELSE IF a = <<>> THEN TRUE
    ELSE IF a[1] = b[1] THEN StrLess(Tail(a), Tail(b))
    ELSE TokenRank(a[1]) < TokenRank(b[1])

RECURSIVE get_file_tree(_)
\* Database::get_file_tree: SELECT ... FROM pagetable ORDER BY virtualPath
\* (rows with one virtual path come in rowid order)
get_file_tree(rows) ==
    IF rows = {} THEN <<>>
    ELSE LET first == CHOOSE r \in rows :
                         \A o \in rows \ {r} :
                            \/ StrLess(r.virtualPath, o.virtualPath)
                            \/ (r.virtualPath = o.virtualPath /\ r.id < o.id)
         IN <<first>> \o get_file_tree(rows \ {first})

\* str::ends_with
EndsWith(str, suffix) ==
    Len(str) >= Len(suffix) /\ SubSeq(str, Len(str) - Len(suffix) + 1, Len(str)) = suffix

\* the first pass of index_markdown_files: the records whose path ends in
\* .md or .markdown, each physical path once
MarkdownRecords(file_records) ==
    SelectRows(file_records,
               {i \in 1..Len(file_records) :
                   \/ ~(EndsWith(file_records[i].path, <<DOT, "md">>)
                        \/ EndsWith(file_records[i].path, <<DOT, "markdown">>))
                   \/ \E j \in 1..(i - 1) : file_records[j].path = file_records[i].path})

\* the table AI keeps the document embeddings in
DocumentTable == "embeddings"

\* EmbeddingModel: text -> a vector of the configured dimension
EmbeddingModel(content) == IF content = Plain THEN <<1, 0>> ELSE <<0, 1>>

\* AI::delete_document_embedding: delete_embeddings(table, [id])
delete_document_embedding(tb, id) == delete_embeddings(tb, <<id>>)

\* AI::store_document_embedding: the vector of the content from the
\* embedding model, then add_embeddings(table, [DocumentEmbedding])
store_document_embedding(tb, id, content, metadata) ==
    add_embeddings(tb, <<[id |-> id, embedding |-> EmbeddingModel(content),
                          metadata |-> metadata]>>)

\* format!("{}|{}", record.virtual_path, record.path)
EmbeddingId(record) == record.virtualPath \o <<"|">> \o record.path

\* the history entry of an index run that stored id
Stored(ix, id) ==
    LET before == {g \in ix : g.id = id}
        n == IF before = {} THEN 0 ELSE (CHOOSE g \in before : TRUE).runs
    IN (ix \ before) \cup {[id |-> id, runs |-> n + 1]}

\* what can go wrong when a document is stored: nothing, or
\* store_document_embedding returns Err (the model or the backend failed)
StoreFaults == {"none", "store"}

\* mutant: a file that cannot be read is skipped without being counted
IndexRecordSkipsUnread(record, files, fault, st) ==
    IF (\A f \in files : f.path # record.path) \/ ~IsText(FileAt(files, record.path).content)
    THEN st
    ELSE LET content == FileAt(files, record.path).content
             metadata == ("physical_path" :> record.path)
                         @@ ("virtual_path" :> record.virtualPath)
                         @@ ("record_metadata" :> record.metadata)
             id == EmbeddingId(record)
             del == delete_document_embedding(st.table, id)
         IN IF fault = "store"
            THEN [st EXCEPT !.table = del.table, !.failed = @ + 1, !.processed = @ + 1]
            ELSE [st EXCEPT !.table = store_document_embedding(del.table, id, content, metadata),
                            !.ix = Stored(st.ix, id),
                            !.succeeded = @ + 1, !.processed = @ + 1]

\* the body of the loop of index_markdown_files for one record: read the
\* file, delete the embedding under the id (outcome dropped), store the new
\* one, count
IndexRecord(record, files, fault, st) ==
    IF (\A f \in files : f.path # record.path) \/ ~IsText(FileAt(files, record.path).content)
    THEN [st EXCEPT !.failed = @ + 1, !.processed = @ + 1]
    ELSE LET content == FileAt(files, record.path).content
             metadata == ("physical_path" :> record.path)
                         @@ ("virtual_path" :> record.virtualPath)
                         @@ ("record_metadata" :> record.metadata)
             id == EmbeddingId(record)
             del == delete_document_embedding(st.table, id)
         IN IF fault = "store"
            THEN [st EXCEPT !.table = del.table, !.failed = @ + 1, !.processed = @ + 1]
            ELSE [st EXCEPT !.table = store_document_embedding(del.table, id, content, metadata),
                            !.ix = Stored(st.ix, id),
                            !.succeeded = @ + 1, !.processed = @ + 1]

RECURSIVE IndexRecords(_, _, _, _, _)
\* the serial loop of index_markdown_files
IndexRecords(markdown_files, i, files, faults, st) ==
    IF i > Len(markdown_files) THEN st
    ELSE IndexRecords(markdown_files, i + 1, files, faults,
                      IndexRecord(markdown_files[i], files, faults[i], st))

\* index_markdown_files, in an environment where storing a document can
\* meet the faults of `kinds`
IndexMarkdownFiles(kinds) ==
    LET markdown_files == MarkdownRecords(get_file_tree(pagetable))
    IN /\ \A g \in indexed : g.runs < MaxRuns
       /\ \E faults \in [1..Len(markdown_files) -> kinds] :
             LET st == IndexRecords(markdown_files, 1, disk, faults,
                                    [table |-> tables[DocumentTable], ix |-> indexed,
                                     processed |-> 0, succeeded |-> 0, failed |-> 0])
             IN /\ tables' = [tables EXCEPT ![DocumentTable] = st.table]
                /\ indexed' = st.ix
                /\ ret' = [NoRet EXCEPT !.op = "index_markdown_files",
                                        !.selected = Len(markdown_files),
                                        !.processed = st.processed,
                                        !.succeeded = st.succeeded,
                                        !.failed = st.failed]
       /\ UNCHANGED <<confVars, searchVars, scanVars, res, deleted, progress>>

NoteQ == <<SLASH, "home", SLASH, "vault", SLASH, "o", QT, "neil", SLASH, "q", DOT, "md">>

\* the notes of the vault that is indexed
IndexWritten ==
    {[path |-> NoteA, content |-> Plain, meta |-> FirstWrite],
     [path |-> NoteA, content |-> FmProjects, meta |-> SecondWrite],
     [path |-> NoteQ, content |-> Plain, meta |-> FirstWrite]}

IndexNext ==
    \/ \E f \in IndexWritten : WriteFile(f.path, f.content, f.meta)
    \/ ScanMarkdownFiles(NoFaults)
    \/ IndexMarkdownFiles(NoFaults)

\* scans and index runs of a vault whose notes change between them
SpecIndex == ScanInit /\ [][IndexNext]_vars

\* the notes of a vault that spells the extension of one note in upper case
ExtensionWritten ==
    {[path |-> NoteA, content |-> Plain, meta |-> FirstWrite],
     [path |-> NoteA, content |-> FmTitle, meta |-> SecondWrite],
     [path |-> NoteUpper, content |-> Plain, meta |-> FirstWrite]}

ExtensionNext ==
    \/ \E f \in ExtensionWritten : WriteFile(f.path, f.content, f.meta)
    \/ \E f \in ExtensionWritten : RemoveFile(f.path)
    \/ ScanMarkdownFiles(NoFaults)
    \/ IndexMarkdownFiles(NoFaults)

\* scans and index runs of that vault
SpecExtension == ScanInit /\ [][ExtensionNext]_vars

NoteN == <<SLASH, "home", SLASH, "vault", SLASH, "n", DOT, "md">>

\* a note in a second vault directory that lies in a directory named `n.md|`
NoteBar ==
    <<SLASH, "home", SLASH, "n", DOT, "md", "|", SLASH, "home", SLASH, "vault", SLASH,
      "n", DOT, "md">>

\* frontmatter that declares the folder `n.md|/home`
FmBar == <<Dash, KvStr("folder", <<"n", DOT, "md", "|", SLASH, "home">>), Dash, Text>>

\* the notes of a vault with a vertical bar in a directory name and in a folder
BarWritten ==
    {[path |-> NoteN, content |-> FmBar, meta |-> FirstWrite],
     [path |-> NoteBar, content |-> Plain, meta |-> FirstWrite]}

BarNext ==
    \/ \E f \in BarWritten : WriteFile(f.path, f.content, f.meta)
    \/ \E f \in BarWritten : RemoveFile(f.path)
    \/ ScanMarkdownFiles(NoFaults)
    \/ IndexMarkdownFiles(NoFaults)

\* scans and index runs of that vault
SpecBar == ScanInit /\ [][BarNext]_vars

\* the notes that come and go
LifecycleWritten ==
    {[path |-> NoteA, content |-> Plain, meta |-> FirstWrite],
     [path |-> NoteQ, content |-> Plain, meta |-> FirstWrite]}

LifecycleNext ==
    \/ \E f \in LifecycleWritten : WriteFile(f.path, f.content, f.meta)
    \/ \E f \in LifecycleWritten : RemoveFile(f.path)
    \/ ScanMarkdownFiles(NoFaults)
    \/ CleanupStaleRecords
    \/ IndexMarkdownFiles(StoreFaults)

\* scans, cleanup passes and index runs of a vault whose notes come and go,
\* while the embedding model or the backend can fail
SpecLifecycle == ScanInit /\ [][LifecycleNext]_vars

\* similarities and thresholds are counted in tenths
SIMILARITY_THRESHOLD == 1
MAX_RESULTS == 20

\* AI::find_similar_documents(content, max_results, None): the vector of the
\* content from the embedding model, then similarity_search on the table
ai_find_similar_documents(tb, content, limit) ==
    similarity_search(tb, EmbeddingModel(content), limit, NoFilter)

\* mutant: the distance is taken for the similarity
DistanceAsSimilarity(distance) == 10 * distance

\* let similarity = 1.0 - similarity_score
Similarity(distance) == 10 - 10 * distance

RECURSIVE SortBySimilarity(_)
\* results.sort_by(|a, b| b.1.partial_cmp(&a.1)): a stable sort, the highest
\* similarity first
SortBySimilarity(results) ==
    IF results = <<>> THEN <<>>
    ELSE LET top == CHOOSE i \in 1..Len(results) :
                       /\ \A j \in 1..Len(results) :
                             results[j].similarity <= results[i].similarity
                       /\ \A j \in 1..(i - 1) :
                             results[j].similarity < results[i].similarity
         IN <<results[top]>> \o SortBySimilarity(SelectRows(results, {top}))

\* vec_indexer::find_similar_documents: the content of the document at the
\* path (a physical path when it exists, else the virtual path of a record),
\* the candidates of the store, those at or above the threshold that carry a
\* physical path, sorted: [ok, candidates, out]
find_similar_documents(rows, files, tb, path, threshold, max_results) ==
    LET limit == IF max_results.some THEN max_results.val ELSE MAX_RESULTS
        least == IF threshold.some THEN threshold.val ELSE SIMILARITY_THRESHOLD
        is_virtual_path == \A f \in files : f.path # path
        file_records == get_file_tree(rows)
        found == {i \in 1..Len(file_records) : file_records[i].virtualPath = path}
        physical == IF is_virtual_path THEN file_records[Min(found)].path ELSE path
        failed == [ok |-> FALSE, candidates |-> <<>>, out |-> <<>>]
    IN IF is_virtual_path /\ found = {} THEN failed
       ELSE IF (\A f \in files : f.path # physical) \/ ~IsText(FileAt(files, physical).content)
       THEN failed
       ELSE LET similar_docs == ai_find_similar_documents(tb, FileAt(files, physical).content,
                                                          limit)
                kept == SelectRows(similar_docs.out,
                           {i \in 1..Len(similar_docs.out) :
                               \/ Similarity(similar_docs.out[i].distance) < least
                               \/ "physical_path" \notin DOMAIN similar_docs.out[i].metadata})
            IN IF ~similar_docs.ok THEN failed
               ELSE [ok |-> TRUE, candidates |-> similar_docs.out,
                     out |-> SortBySimilarity(
                                [i \in 1..Len(kept) |->
                                    [path |-> kept[i].metadata["physical_path"],
                                     similarity |-> Similarity(kept[i].distance)]])]

FindSimilarDocuments(path, threshold, max_results) ==
    LET r == find_similar_documents(pagetable, disk, tables[DocumentTable], path, threshold,
                                    max_results)
    IN /\ ret' = [NoRet EXCEPT !.op = "find_similar_documents", !.ok = r.ok, !.path = path,
                               !.out = [threshold |-> threshold, max_results |-> max_results,
                                        candidates |-> r.candidates, results |-> r.out]]
       /\ UNCHANGED <<confVars, searchVars, scanVars, storeVars, indexVars>>

\* the notes whose neighbours are asked for: the embedding model places them
\* apart
SimilarWritten ==
    {[path |-> NoteA, content |-> Plain, meta |-> FirstWrite],
     [path |-> NoteQ, content |-> FmTitle, meta |-> FirstWrite]}

\* the smallest number of results asked for
FewResults == 1

SimilarNext ==
    \/ \E f \in SimilarWritten : WriteFile(f.path, f.content, f.meta)
    \/ ScanMarkdownFiles(NoFaults)
    \/ IndexMarkdownFiles(NoFaults)
    \/ \E path \in {NoteQ, <<"notes", SLASH, "a", DOT, "md">>, NoteN},
          threshold \in {None, Some(-20)},
          max_results \in {None, Some(FewResults)} :
          FindSimilarDocuments(path, threshold, max_results)

\* scans, index runs and searches for the neighbours of a note
SpecSimilar == ScanInit /\ [][SimilarNext]_vars

(***************************************************************************)
(* SearchEngine: src/search/mod.rs                                         *)
(***************************************************************************)
\* Path::file_stem: the file name up to its last dot
FileStem(path) ==
    LET comps == Components(path)
        name == IF comps = <<>> THEN <<>> ELSE comps[Len(comps)].name
        dots == {i \in 2..Len(name) : name[i] = DOT}
    IN IF dots = {} THEN name
       ELSE SubSeq(name, 1, Min({i \in dots : \A j \in dots : j <= i}) - 1)

\* SearchEngine::extract_title_from_markdown: the first `# ` heading, or the
\* file stem
extract_title_from_markdown(content, path) ==
    LET heads == {i \in 1..Len(content) : content[i].kind = "heading"}
    IN IF heads # {} THEN content[Min(heads)].val ELSE FileStem(path)

\* SearchEngine::index_document: writer.add_document(title, body, path)
index_document(docs, path, content) ==
    Append(docs, [title |-> extract_title_from_markdown(content, path),
                  body |-> content, path |-> path])

RECURSIVE IndexAllRecords(_, _, _, _)
\* the loop of index_all_documents over the file tree
IndexAllRecords(file_records, i, files, st) ==
    IF i > Len(file_records) THEN st
    ELSE LET path == file_records[i].path
         IN IF ~EndsWith(path, <<DOT, "md">>)
            THEN IndexAllRecords(file_records, i + 1, files, st)
            ELSE IF (\A f \in files : f.path # path) \/ ~IsText(FileAt(files, path).content)
            THEN IndexAllRecords(file_records, i + 1, files,
                                 [st EXCEPT !.error_count = @ + 1])
            ELSE IndexAllRecords(file_records, i + 1, files,
                    [docs |-> index_document(st.docs, path, FileAt(files, path).content),
                     indexed_count |-> st.indexed_count + 1,
                     error_count |-> st.error_count])

\* SearchEngine::index_all_documents: delete_all_documents, add a document per
\* readable .md record, commit
IndexAllDocuments ==
    LET st == IndexAllRecords(get_file_tree(pagetable), 1, disk,
                              [docs |-> <<>>, indexed_count |-> 0, error_count |-> 0])
    IN /\ search_index' = st.docs
       /\ ret' = [NoRet EXCEPT !.op = "index_all_documents",
                               !.succeeded = st.indexed_count, !.failed = st.error_count]
       /\ UNCHANGED <<confVars, scanVars, storeVars, indexVars>>

Titled == <<Heading(<<"Hello">>), Text>>

\* the notes of the vault that is searched
SearchWritten ==
    {[path |-> NoteA, content |-> Plain, meta |-> FirstWrite],
     [path |-> NoteA, content |-> Titled, meta |-> SecondWrite],
     [path |-> NoteUpper, content |-> Plain, meta |-> FirstWrite]}

SearchNext ==
    \/ \E f \in SearchWritten : WriteFile(f.path, f.content, f.meta)
    \/ \E f \in SearchWritten : RemoveFile(f.path)
    \/ ScanMarkdownFiles(NoFaults)
    \/ IndexAllDocuments

\* scans and rebuilds of the lexical index of a vault whose notes come and go
SpecSearch == ScanInit /\ [][SearchNext]_vars

\* SearchEngine::create_schema: title is indexed and stored, body is indexed,
\* path is stored only
Schema ==
    [title |-> [indexed |-> TRUE, stored |-> TRUE],
     body |-> [indexed |-> TRUE, stored |-> FALSE],
     path |-> [indexed |-> FALSE, stored |-> TRUE]]

\* the terms the index holds for a field of a document: the lower-cased words
\* of an indexed text, none for a field that is not indexed
FieldTerms(doc, field) ==
    IF ~Schema[field].indexed THEN {}
    ELSE IF field = "title" THEN {Lower(w) : w \in Range(doc.title)}
    ELSE UNION {{Lower(w) : w \in Range(doc.body[i].val)} : i \in 1..Len(doc.body)}

\* IndexWriter::delete_term(Term::from_field_text(field, text)): the documents
\* that hold the term in the index of the field go
delete_term(docs, field, text) ==
    SelectRows(docs, {i \in 1..Len(docs) : text \in FieldTerms(docs[i], field)})

\* SearchEngine::update_document(path): delete_term on the path, add the
\* document when the path ends in .md and exists, commit; a read error
\* returns before the commit and the writer is dropped
update_document(docs, files, path) ==
    LET kept == delete_term(docs, "path", path)
    IN IF EndsWith(path, <<DOT, "md">>) /\ \E f \in files : f.path = path
       THEN IF ~IsText(FileAt(files, path).content)
            THEN [ok |-> FALSE, docs |-> docs]
            ELSE [ok |-> TRUE, docs |-> index_document(kept, path, FileAt(files, path).content)]
       ELSE [ok |-> TRUE, docs |-> kept]

\* the most documents the index is let grow to
MaxDocs == 3

UpdateDocument(path) ==
    /\ Len(search_index) < MaxDocs
    /\ LET r == update_document(search_index, disk, path)
       IN /\ search_index' = r.docs
          /\ ret' = [NoRet EXCEPT !.op = "update_document", !.ok = r.ok, !.path = path]
    /\ UNCHANGED <<confVars, scanVars, storeVars, indexVars>>

\* the versions of the note that is updated
UpdateWritten ==
    {[path |-> NoteA, content |-> Plain, meta |-> FirstWrite],
     [path |-> NoteA, content |-> Titled, meta |-> SecondWrite]}

UpdateNext ==
    \/ \E f \in UpdateWritten : WriteFile(f.path, f.content, f.meta)
    \/ \E f \in UpdateWritten : RemoveFile(f.path)
    \/ ScanMarkdownFiles(NoFaults)
    \/ IndexAllDocuments
    \/ \E path \in {NoteA, NoteUpper} : UpdateDocument(path)

\* rebuilds and single-document updates of the lexical index
SpecUpdate == ScanInit /\ [][UpdateNext]_vars

\* a line of text with its words
Line(words) == [kind |-> "text", key |-> "", type |-> "", val |-> words]

\* the length of a word in bytes
WordLen(w) == IF w \in {"wiki", "here"} THEN 4 ELSE 5

RECURSIVE FitWords(_, _)
\* the longest prefix of the words that, joined by spaces, fits in n bytes
FitWords(words, n) ==
    IF words = <<>> \/ WordLen(Head(words)) > n THEN <<>>
    ELSE <<Head(words)>> \o FitWords(Tail(words), n - WordLen(Head(words)) - 1)

\* the snippet of a result: the first three lines that do not start with #,
\* joined by spaces, cut to 147 bytes and `...` when longer than 150 (the cut
\* is taken at the last whole word here)
Preview(content) ==
    LET other == SelectRows(content, {i \in 1..Len(content) : content[i].kind = "heading"})
        lines == SubSeq(other, 1, Min({3, Len(other)}))
        preview == Concat([i \in 1..Len(lines) |-> lines[i].val])
        len == Len(preview) - 1 + Len(Concat([i \in 1..Len(preview) |->
                                                 [j \in 1..WordLen(preview[i]) |-> 1]]))
    IN IF len > 150 THEN Append(FitWords(preview, 147), "...") ELSE preview

\* mutant: the query is run on the title field only
MatchesTitle(docs, query_str) ==
    {i \in 1..Len(docs) :
        \E w \in Range(query_str) : Lower(w) \in FieldTerms(docs[i], "title")}

\* the documents a query matches: QueryParser::for_index over title and body,
\* any term of the query in either field
Matches(docs, query_str) ==
    {i \in 1..Len(docs) :
        \E w \in Range(query_str) :
           Lower(w) \in FieldTerms(docs[i], "title") \cup FieldTerms(docs[i], "body")}

\* SearchEngine::search: a result per top document, with its stored path and
\* title and a snippet read from the file at the path
search(docs, files, top_docs) ==
    {[path |-> docs[i].path, title |-> docs[i].title,
      snippet |-> IF docs[i].path = <<>> \/ (\A f \in files : f.path # docs[i].path)
                     \/ ~IsText(FileAt(files, docs[i].path).content)
                  THEN None
                  ELSE Some(Preview(FileAt(files, docs[i].path).content))] :
        i \in top_docs}

\* the most results a search asks for
SearchLimit == 1

\* a call of search: the top documents are the matching ones, or `limit` of
\* them when there are more (their ranking is not modelled)
Search(query_str, limit) ==
    LET matches == Matches(search_index, query_str)
    IN /\ \E top_docs \in SUBSET matches :
             /\ Cardinality(top_docs) = Min({limit, Cardinality(matches)})
             /\ ret' = [NoRet EXCEPT !.op = "search",
                                     !.out = [query_str |-> query_str,
                                              results |-> search(search_index, disk, top_docs)]]
       /\ UNCHANGED <<confVars, searchVars, scanVars, storeVars, indexVars>>

MainA == <<SLASH, "home", SLASH, "main", SLASH, "a", DOT, "md">>
MainB == <<SLASH, "home", SLASH, "main", SLASH, "b", DOT, "md">>

\* the files of the scenario: main/a.md and main/b.md
ScenarioFiles ==
    {[path |-> MainA, content |-> <<Heading(<<"Hello">>), Line(<<"world", "wiki">>)>>,
      meta |-> FirstWrite],
     [path |-> MainB, content |-> <<Heading(<<"Bye">>), Line(<<"links", "here">>)>>,
      meta |-> FirstWrite]}

\* vault main with indicator main, nothing written or scanned yet
ScenarioInit ==
    /\ disk = {}
    /\ pagetable = {}
    /\ attachments = {}
    /\ pageSeq = 0
    /\ attSeq = 0
    /\ lastPage = {}
    /\ lastAtt = {}
    /\ tables = [t \in TableNames |-> AbsentTable]
    /\ res = NoRes
    /\ deleted = [t \in TableNames |-> {}]
    /\ indexed = {}
    /\ progress = NoRun
    /\ ret = NoRet
    /\ search_index = <<>>
    /\ input = NoArgs
    /\ config = VaultConfig
    /\ scanner = [vaults |-> ScannerVaults, indicator |-> <<"main">>]

ScenarioNext ==
    \/ \E f \in ScenarioFiles : WriteFile(f.path, f.content, f.meta)
    \/ \E f \in ScenarioFiles : RemoveFile(f.path)
    \/ ScanMarkdownFiles(NoFaults)
    \/ IndexAllDocuments
    \/ \E q \in {<<"wiki">>, <<"here", "hello">>}, limit \in {SearchLimit, 10} : Search(q, limit)

\* the scenario of the vault main, with searches of its lexical index
SpecScenario == ScenarioInit /\ [][ScenarioNext]_vars

(***************************************************************************)
(* Fetch: src/fetch.rs                                                     *)
(***************************************************************************)
\* the error of a call that found no page or could not read its file
NoPage == [ok |-> FALSE, content |-> <<>>, metadata |-> <<>>]

\* fs::read_to_string(local_path) of the row the query yielded first, with the
\* metadata of that row
PageOfRow(row, files) ==
    IF (\A f \in files : f.path # row.path) \/ ~IsText(FileAt(files, row.path).content)
    THEN NoPage
    ELSE [ok |-> TRUE, content |-> FileAt(files, row.path).content,
          metadata |-> row.metadata]

\* Fetch::get_page_content: SELECT path, metadata FROM pagetable WHERE
\* virtualPath = ?1, the first row of the result (the statement has no ORDER
\* BY, so any matching row can come first), the file of that row read
get_page_content(rows, files, virtual_path) ==
    {PageOfRow(r, files) : r \in {x \in rows : x.virtualPath = virtual_path}}

\* a call of get_page_content with the virtual path of a row or another one
GetPageContent(virtual_path) ==
    LET pages == get_page_content(pagetable, disk, virtual_path)
    IN /\ \E page \in (IF pages = {} THEN {NoPage} ELSE pages) :
             ret' = [NoRet EXCEPT !.op = "get_page_content", !.ok = page.ok,
                                  !.virtual_path = virtual_path,
                                  !.content = page.content, !.metadata = page.metadata]
       /\ UNCHANGED <<confVars, searchVars, scanVars, storeVars, indexVars>>

NoteP == <<SLASH, "home", SLASH, "vault", SLASH, "projects", SLASH, "notes", SLASH, "a", DOT, "md">>

\* the notes of the vault that is fetched from: one declares the folder the
\* other one lies in
FetchWritten ==
    {[path |-> NoteA, content |-> FmProjects, meta |-> FirstWrite],
     [path |-> NoteA, content |-> FmTitle, meta |-> SecondWrite],
     [path |-> NoteP, content |-> Titled, meta |-> FirstWrite]}

\* the virtual paths asked for
VirtualPaths ==
    {<<"notes", SLASH, "a", DOT, "md">>,
     <<"projects", SLASH, "notes", SLASH, "a", DOT, "md">>}

FetchNext ==
    \/ \E f \in FetchWritten : WriteFile(f.path, f.content, f.meta)
    \/ \E f \in FetchWritten : RemoveFile(f.path)
    \/ ScanMarkdownFiles(NoFaults)
    \/ \E v \in VirtualPaths : GetPageContent(v)

\* scans of a vault whose notes come and go, and pages fetched by virtual path
SpecFetch == ScanInit /\ [][FetchNext]_vars

(***************************************************************************)
(* Snippets: src/search/advanced.rs                                        *)
(* A text is the sequence of its characters; all of them are ASCII, so the *)
(* length in bytes is the length of the sequence.                          *)
(***************************************************************************)
SP == " "
NL == "\n"
HASH == "#"

\* char::is_whitespace
IsSpace(c) == c \in {SP, NL}

\* str::to_lowercase, on the characters of the texts
LowerChars(str) == [i \in 1..Len(str) |-> IF str[i] = "W" THEN "w" ELSE str[i]]

\* str::trim
Trim(str) ==
    LET keep == {i \in 1..Len(str) : ~IsSpace(str[i])}
    IN IF keep = {} THEN <<>>
       ELSE SubSeq(str, Min(keep), CHOOSE i \in keep : \A j \in keep : j <= i)

RECURSIVE SplitOn(_, _, _)
\* str::split(sep): the pieces between the matches of sep, found left to
\* right without overlap; piece is the part of the current piece read so far
SplitOn(str, sep, piece) ==
    IF str = <<>> THEN <<piece>>
    ELSE IF Len(str) >= Len(sep) /\ SubSeq(str, 1, Len(sep)) = sep
    THEN <<piece>> \o SplitOn(SubSeq(str, Len(sep) + 1, Len(str)), sep, <<>>)
    ELSE SplitOn(Tail(str), sep, Append(piece, Head(str)))

RECURSIVE SplitWhitespace(_, _)
\* str::split_whitespace: the maximal runs of characters that are not
\* whitespace
SplitWhitespace(str, word) ==
    IF str = <<>> THEN (IF word = <<>> THEN <<>> ELSE <<word>>)
    ELSE IF IsSpace(Head(str))
    THEN (IF word = <<>> THEN <<>> ELSE <<word>>) \o SplitWhitespace(Tail(str), <<>>)
    ELSE SplitWhitespace(Tail(str), Append(word, Head(str)))

\* the number of query terms the text contains, case-insensitively
TermScore(text, query_terms) ==
    Cardinality({i \in 1..Len(query_terms) :
                    Contains(LowerChars(text), LowerChars(query_terms[i]))})

Ellipsis == <<".", ".", ".">>

\* format!("{}...", &text[..max_length - 3]) when text.len() > max_length,
\* else text; max_length - 3 on a usize below 3 overflows (a panic, or a wrap
\* to an index past the end of the text, which panics in the slice)
CutTail(text, max_length) ==
    IF Len(text) > max_length
    THEN IF max_length < 3 THEN [kind |-> "panic", val |-> <<>>]
         ELSE [kind |-> "some", val |-> SubSeq(text, 1, max_length - 3) \o Ellipsis]
    ELSE [kind |-> "some", val |-> text]

\* the window of ten words of the best paragraph that holds the most query
\* terms, the first such window winning, with two words of context on each
\* side and marks where the paragraph goes on
BestWindow(words, query_terms) ==
    LET window_size == 10
        score(start) ==
            TermScore(JoinWith(SubSeq(words, start + 1, start + window_size), <<SP>>),
                      query_terms)
        starts == 0..(Len(words) - window_size)
        best == CHOOSE b \in starts :
                   /\ \A c \in starts : score(c) <= score(b)
                   /\ \A c \in starts : c < b => score(c) < score(b)
        best_window_start == IF score(best) > 0 THEN best ELSE 0
        start == IF best_window_start < 2 THEN 0 ELSE best_window_start - 2
        end == Min({best_window_start + window_size + 2, Len(words)})
    IN (IF start > 0 THEN <<".", ".", ".", SP>> ELSE <<>>)
       \o JoinWith(SubSeq(words, start + 1, end), <<SP>>)
       \o (IF end < Len(words) THEN <<SP, ".", ".", ".">> ELSE <<>>)

\* extract_relevant_snippet(content, query_terms, max_length)
extract_relevant_snippet(content, query_terms, max_length) ==
    LET split == SplitOn(content, <<NL, NL>>, <<>>)
        paragraphs ==
            SelectRows(split, {i \in 1..Len(split) :
                                  Trim(split[i]) = <<>> \/ Head(Trim(split[i])) = HASH})
        top == CHOOSE i \in 1..Len(paragraphs) :
                  /\ \A j \in 1..Len(paragraphs) :
                        TermScore(paragraphs[j], query_terms)
                           <= TermScore(paragraphs[i], query_terms)
                  /\ \A j \in 1..(i - 1) :
                        TermScore(paragraphs[j], query_terms)
                           < TermScore(paragraphs[i], query_terms)
        best_paragraph == paragraphs[top]
        words == SplitWhitespace(best_paragraph, <<>>)
    IN IF content = <<>> \/ query_terms = <<>> THEN [kind |-> "none", val |-> <<>>]
       ELSE IF paragraphs = <<>> THEN [kind |-> "none", val |-> <<>>]
       ELSE IF TermScore(best_paragraph, query_terms) = 0
       THEN CutTail(paragraphs[1], max_length)
       ELSE IF Len(words) <= 10 THEN [kind |-> "some", val |-> best_paragraph]
       ELSE CutTail(BestWindow(words, query_terms), max_length)

\* a call of extract_relevant_snippet with the arguments drawn
ExtractRelevantSnippet ==
    /\ input # NoArgs
    /\ input.op = "extract_relevant_snippet"
    /\ ret.op = "none"
    /\ ret' = [NoRet EXCEPT !.op = "extract_relevant_snippet",
                            !.out = extract_relevant_snippet(input.content, input.query_terms,
                                                             input.max_length)]
    /\ UNCHANGED <<confVars, searchVars, scanVars, storeVars, indexVars>>

Wiki == <<"w", "i", "k", "i">>
Links == <<"l", "i", "n", "k", "s">>

\* n words `it`, separated by a space
Repeat(n) == JoinWith([i \in 1..n |-> <<"i", "t">>], <<SP>>)

\* the texts snippets are taken from: nothing, a heading with its text on the
\* next line, a heading and two short paragraphs, a short paragraph, a
\* paragraph without the term, a long paragraph with the term near its end
SnippetContents ==
    {<<>>,
     <<HASH, SP, "H", "i", NL>> \o Wiki,
     <<HASH, SP, "H", "i", NL, NL>> \o Links \o <<NL, NL>> \o Wiki \o <<SP>> \o Links,
     <<"W">> \o Tail(Wiki) \o <<SP>> \o Links,
     Links \o <<SP>> \o Links,
     Repeat(13) \o <<SP>> \o Wiki \o <<SP>> \o Repeat(3)}

SnippetQueries == {<<>>, <<Wiki>>, <<Wiki, Links>>}

\* the largest max_length asked for
MaxSnippet == 12

SnippetInit ==
    /\ \E content \in SnippetContents, query_terms \in SnippetQueries,
          max_length \in 0..MaxSnippet :
          input = [op |-> "extract_relevant_snippet", content |-> content,
                   query_terms |-> query_terms, max_length |-> max_length]
    /\ disk = {}
    /\ pagetable = {}
    /\ attachments = {}
    /\ pageSeq = 0
    /\ attSeq = 0
    /\ lastPage = {}
    /\ lastAtt = {}
    /\ tables = [t \in TableNames |-> AbsentTable]
    /\ res = NoRes
    /\ deleted = [t \in TableNames |-> {}]
    /\ indexed = {}
    /\ progress = NoRun
    /\ ret = NoRet
    /\ search_index = <<>>
    /\ config = VaultConfig
    /\ scanner = [vaults |-> ScannerVaults, indicator |-> Indicator]

SnippetNext == ExtractRelevantSnippet

\* snippets of the texts, for the queries and the lengths
SpecSnippet == SnippetInit /\ [][SnippetNext]_vars

(***************************************************************************)
(* Partitions and probes of the vector index: src/embeddings.rs           *)
(***************************************************************************)
\* Ord::clamp
Clamp(x, lo, hi) == IF x < lo THEN lo ELSE IF x > hi THEN hi ELSE x

\* the largest root any row count drawn has
MaxRoot == 1500

\* (row_count as f64).sqrt().round() as u32: the square root is rounded
\* correctly and the row counts drawn are exact in f64, so the result is the
\* whole part s of the root, plus one when row_count - s * s > s (the fraction
\* is a half or more)
RoundedSqrt(row_count) ==
    LET s == CHOOSE r \in 0..MaxRoot : r * r <= row_count /\ row_count < (r + 1) * (r + 1)
    IN IF row_count - s * s > s THEN s + 1 ELSE s

\* mutant: the root is cut to its whole part
estimate_partition_count_cut(row_count) ==
    Clamp(CHOOSE r \in 0..MaxRoot : r * r <= row_count /\ row_count < (r + 1) * (r + 1),
          10, 1000)

\* estimate_partition_count(row_count)
estimate_partition_count(row_count) == Clamp(RoundedSqrt(row_count), 10, 1000)

\* calculate_optimal_nprobes(row_count): (num_partitions as f64 * 0.10).round()
\* rounds halves away from zero; for 10..1000 partitions the f64 product of an
\* odd multiple of 5 is the exact half, so the result is (p + 5) div 10
calculate_optimal_nprobes(row_count) ==
    LET num_partitions == estimate_partition_count(row_count)
        probes == (num_partitions + 5) \div 10
    IN Clamp(probes, 10, 100)

EstimatePartitionCount ==
    /\ input # NoArgs
    /\ input.op = "row_count"
    /\ ret.op = "none"
    /\ ret' = [NoRet EXCEPT !.op = "estimate_partition_count",
                            !.out = estimate_partition_count(input.row_count)]
    /\ UNCHANGED <<confVars, searchVars, scanVars, storeVars, indexVars>>

CalculateOptimalNprobes ==
    /\ input # NoArgs
    /\ input.op = "row_count"
    /\ ret.op = "none"
    /\ ret' = [NoRet EXCEPT !.op = "calculate_optimal_nprobes",
                            !.out = calculate_optimal_nprobes(input.row_count)]
    /\ UNCHANGED <<confVars, searchVars, scanVars, storeVars, indexVars>>

\* every row count up to this one is drawn
MaxRowCount == 135

\* the row counts drawn: the small ones, the ones whose root is a whole number
\* or a whole number and a half around 100 partitions, and the ones around a
\* million, where the partition count reaches its cap
RowCounts ==
    (0..MaxRowCount)
       \cup {r * r : r \in 94..106} \cup {r * r + r : r \in 94..106}
       \cup {r * r + r + 1 : r \in 94..106}
       \cup {998000, 999000, 999001, 1000000, 1000500, 1000501, 1002001, 2000000}

PartitionInit ==
    /\ \E row_count \in RowCounts : input = [op |-> "row_count", row_count |-> row_count]
    /\ disk = {}
    /\ pagetable = {}
    /\ attachments = {}
    /\ pageSeq = 0
    /\ attSeq = 0
    /\ lastPage = {}
    /\ lastAtt = {}
    /\ tables = [t \in TableNames |-> AbsentTable]
    /\ res = NoRes
    /\ deleted = [t \in TableNames |-> {}]
    /\ indexed = {}
    /\ progress = NoRun
    /\ ret = NoRet
    /\ search_index = <<>>
    /\ config = VaultConfig
    /\ scanner = [vaults |-> ScannerVaults, indicator |-> Indicator]

PartitionNext == EstimatePartitionCount \/ CalculateOptimalNprobes

\* partition and probe counts of the row counts
SpecPartition == PartitionInit /\ [][PartitionNext]_vars

(***************************************************************************)
(* The progress reporter of index_markdown_files: src/vec_indexer.rs       *)
(* The run and the reporter are two tasks that share three AtomicUsize     *)
(* counters; every access is Ordering::Relaxed. One document's outcome is  *)
(* an input here: its file is unreadable, its embedding is stored, or the  *)
(* store refuses it.                                                       *)
(***************************************************************************)
MaxFiles == 3

Outcomes == {"unreadable", "stored", "store_failed"}

\* counter.load(Ordering::Relaxed): a relaxed load is ordered with the other accesses of
\* the same counter only, so it returns a value of the counter's modification order that
\* is not older than the one the loading thread read before, and not necessarily the latest.
RelaxedLoad(seen, latest) == seen..latest

\* lines 42-57: the selected files are counted, the counters start at 0 and the reporter
\* is spawned; without files the run returns before it spawns anything
StartIndexing(total_files) ==
    /\ progress = NoRun
    /\ progress' =
         IF total_files = 0
         THEN [NoRun EXCEPT !.run = "returned"]
         ELSE [NoRun EXCEPT !.total_files = total_files, !.run = "loop", !.reporter = "sleep"]
    /\ UNCHANGED <<confVars, searchVars, scanVars, storeVars, callVars, indexed>>

\* lines 122-157: one document of the loop, up to the fetch_add of its outcome
CountOutcome(outcome) ==
    /\ progress.run = "loop"
    /\ progress' =
         IF outcome = "stored"
         THEN [progress EXCEPT !.success_count = @ + 1, !.run = "counted"]
         ELSE [progress EXCEPT !.error_count = @ + 1, !.run = "counted"]
    /\ UNCHANGED <<confVars, searchVars, scanVars, storeVars, callVars, indexed>>

\* lines 128, 160: processed_count.fetch_add(1), then the next document or the join
CountProcessed ==
    /\ progress.run = "counted"
    /\ progress' =
         [progress EXCEPT !.processed_count = @ + 1,
                          !.run = IF progress.processed_count + 1 = progress.total_files
                                  THEN "join" ELSE "loop"]
    /\ UNCHANGED <<confVars, searchVars, scanVars, storeVars, callVars, indexed>>

\* lines 66-68: after the sleep, progress_processed.load
LoadProcessed ==
    /\ progress.reporter = "sleep"
    /\ \E v \in RelaxedLoad(progress.current, progress.processed_count) :
          progress' = [progress EXCEPT !.current = v, !.reporter = "load_success"]
    /\ UNCHANGED <<confVars, searchVars, scanVars, storeVars, callVars, indexed>>

\* line 69: progress_success.load
LoadSuccess ==
    /\ progress.reporter = "load_success"
    /\ \E v \in RelaxedLoad(progress.successes, progress.success_count) :
          progress' = [progress EXCEPT !.successes = v, !.reporter = "load_error"]
    /\ UNCHANGED <<confVars, searchVars, scanVars, storeVars, callVars, indexed>>

\* line 70: progress_error.load
LoadError ==
    /\ progress.reporter = "load_error"
    /\ \E v \in RelaxedLoad(progress.errors, progress.error_count) :
          progress' = [progress EXCEPT !.errors = v, !.reporter = "report"]
    /\ UNCHANGED <<confVars, searchVars, scanVars, storeVars, callVars, indexed>>

\* lines 73-114: the completion line and the break, or a progress line and the next sleep
Report ==
    /\ progress.reporter = "report"
    /\ progress' =
         IF progress.current >= progress.total_files
         THEN [progress EXCEPT !.reporter = "exit",
                 !.completion = [total |-> progress.total_files,
                                 succeeded |-> progress.successes,
                                 failed |-> progress.errors]]
         ELSE [progress EXCEPT !.reporter = "sleep"]
    /\ UNCHANGED <<confVars, searchVars, scanVars, storeVars, callVars, indexed>>

\* lines 163-170: progress_handle.await, then Ok(())
Join ==
    /\ progress.run = "join"
    /\ progress.reporter = "exit"
    /\ progress' = [progress EXCEPT !.run = "returned"]
    /\ UNCHANGED <<confVars, searchVars, scanVars, storeVars, callVars, indexed>>

ProgressNext ==
    \/ \E total_files \in 0..MaxFiles : StartIndexing(total_files)
    \/ \E outcome \in Outcomes : CountOutcome(outcome)
    \/ CountProcessed
    \/ LoadProcessed
    \/ LoadSuccess
    \/ LoadError
    \/ Report
    \/ Join

SpecProgress == ScanInit /\ [][ProgressNext]_vars

(***************************************************************************)
(* Claims about the embedding store (checked under SpecStore)              *)
(***************************************************************************)
LastTable == tables[res.table]

\* the rows a vector query can return: they hold a vector and pass the filter
Searchable(tb, filter) ==
    {i \in 1..Len(tb.rows) :
        tb.rows[i].embedding # NullVec /\ FilterMatches(tb.rows[i], filter)}

\* C3: right after add_embeddings, the table holds no row with the id of a
\* record of the batch whose vector length differs from the configured
\* dimension.
C3_MismatchedVectorNeverStored ==
    res.op = "add_embeddings" =>
        \A i \in 1..Len(res.batch) :
            Len(res.batch[i].embedding) # EmbeddingDim =>
                \A j \in 1..Len(LastTable.rows) : LastTable.rows[j].id # res.batch[i].id

\* C4: a similarity_search whose query vector length differs from the
\* configured dimension fails with DimensionMismatch and returns no results,
\* whether the table exists or not.
C4_MismatchedQueryAlwaysFails ==
    res.op = "similarity_search" /\ Len(res.query) # EmbeddingDim =>
        ~res.ok /\ res.err = "DimensionMismatch" /\ res.out = <<>>

\* C5: a similarity_search never returns an id whose delete_embeddings
\* returned Ok on that table and that was not added again since.
C5_DeletedIdNeverReturned ==
    res.op = "similarity_search" /\ res.ok =>
        \A n \in 1..Len(res.out) : res.out[n].id \notin deleted[res.table]

\* C6: similarity_search never returns more than limit results although it
\* asks the backend for floor(1.5 * limit); with no filter and at least limit
\* rows the vector query can match it returns exactly limit.
C6_AtMostLimitResults ==
    res.op = "similarity_search" /\ res.ok =>
        /\ Len(res.out) <= res.limit
        /\ search_limit(res.limit) >= res.limit
        /\ ~res.filter.some /\ Cardinality(Searchable(LastTable, res.filter)) >= res.limit
              => Len(res.out) = res.limit

\* C6 witness: the backend had more candidates than limit and the result was
\* cut to limit.
C6_Witness ==
    /\ res.op = "similarity_search" /\ res.ok /\ res.limit = 2
    /\ Cardinality(Searchable(LastTable, res.filter)) >= search_limit(res.limit)
    /\ search_limit(res.limit) > res.limit
    /\ Len(res.out) = 2

C8_IndexTriggeredOnceByFirstInsert ==
    \A t \in TableNames :
        tables[t].exists =>
            tables[t].indexTriggers = (IF tables[t].inserted THEN 1 ELSE 0)

(***************************************************************************)
(* Claims about the scanner and the metadata store                         *)
(***************************************************************************)
\* C1: pagetable and attachments each hold at most one row per physical
\* path: a path added again adds no row (there are as many rows as paths
\* ever added), and the row of a path carries the virtual path, metadata and
\* timestamps (the type, for an attachment) of the latest call for that path.
C1_OneRowPerPathLatestWins ==
    /\ \A r1, r2 \in pagetable : r1.path = r2.path => r1 = r2
    /\ \A r1, r2 \in attachments : r1.path = r2.path => r1 = r2
    /\ Cardinality(pagetable) = Cardinality(lastPage)
    /\ Cardinality(attachments) = Cardinality(lastAtt)
    /\ \A g \in lastPage :
          \E r \in pagetable :
             /\ r.path = g.path
             /\ r.virtualPath = g.args.virtual_path
             /\ r.metadata = g.args.metadata
             /\ r.last_modified = g.args.last_modified
             /\ r.created = g.args.created
    /\ \A g \in lastAtt :
          \E r \in attachments :
             /\ r.path = g.path
             /\ r.virtualPath = g.args.virtual_path
             /\ r.type = g.args.type

\* a note scanned, rewritten with a folder and scanned again, and a picture
\* scanned twice
C1_Witness ==
    /\ \E g \in lastPage :
          /\ g.path = NoteA
          /\ g.calls = 2
          /\ g.args.last_modified = 2
          /\ g.args.virtual_path = <<"projects", SLASH, "notes", SLASH, "a", DOT, "md">>
    /\ \E g \in lastAtt : g.calls = 2

\* the first component of a virtual path
FirstComponent(virtual_path) == Split(virtual_path, SLASH)[1]

\* C9: the first component of the virtual path of every stored file differs
\* from the indicator, whatever the physical path (holding the indicator)
\* and whatever the frontmatter.
C9_IndicatorNeverFirstComponent ==
    /\ \A r \in pagetable : FirstComponent(r.virtualPath) # Indicator
    /\ \A r \in attachments : FirstComponent(r.virtualPath) # Indicator

\* the non-empty pieces of a path, those after the first piece equal to the
\* indicator, joined with '/'
C10_Relative(path) ==
    LET pieces == SelectSeq(Split(path, SLASH), LAMBDA c : c # <<>>)
        k == Min({i \in 1..Len(pieces) : pieces[i] = Indicator})
    IN JoinWith(SubSeq(pieces, k + 1, Len(pieces)), <<SLASH>>)

\* F without its trailing slashes: the prefix of F that ends in no slash and
\* is followed by slashes only
C10_Stripped(F) ==
    CHOOSE p \in {SubSeq(F, 1, n) : n \in 0..Len(F)} :
        /\ p = <<>> \/ p[Len(p)] # SLASH
        /\ \A i \in (Len(p) + 1)..Len(F) : F[i] = SLASH

\* the lines between the opening --- and the closing one, for a file that
\* has such a block made of key/value lines
C10_Frontmatter(content) ==
    IF content # <<>> /\ content[1] = Dash
       /\ \E c \in 2..Len(content) :
             /\ content[c] = Dash
             /\ \A i \in 2..(c - 1) : content[i].kind = "kv"
    THEN LET c == Min({i \in 2..Len(content) : content[i] = Dash})
         IN {content[i] : i \in 2..(c - 1)}
    ELSE {}

\* the string folder values of a file's frontmatter
C10_Folders(content) ==
    {l.val : l \in {e \in C10_Frontmatter(content) : e.key = "folder" /\ e.type = "str"}}

\* C10: the stored virtual path of a scanned markdown file is the relative
\* path (the components after the first indicator component) when the file
\* has no frontmatter or its frontmatter has no folder key, and F without
\* trailing slash, '/', the relative path when the frontmatter has the string
\* folder value F.
C10_VirtualPathFromFolderAndRelative ==
    \A r \in pagetable :
       \A f \in disk :
          f.path = r.path =>
             /\ \A F \in C10_Folders(f.content) :
                   r.virtualPath = C10_Stripped(F) \o <<SLASH>> \o C10_Relative(f.path)
             /\ (\A e \in C10_Frontmatter(f.content) : e.key # "folder")
                   /\ (f.content = <<>> \/ f.content[1] # Dash
                       \/ C10_Frontmatter(f.content) # {})
                   => r.virtualPath = C10_Relative(f.path)

\* a note whose frontmatter says `folder: projects/` has been scanned
C10_Witness ==
    \E r \in pagetable :
       /\ r.path = NoteA
       /\ [path |-> NoteA, content |-> FmProjects, meta |-> FirstWrite] \in disk
       /\ r.virtualPath = <<"projects", SLASH, "notes", SLASH, "a", DOT, "md">>

(***************************************************************************)
(* Claims about the indexer                                                *)
(***************************************************************************)
\* C2: for a document of pagetable that two or more index runs have stored
\* under one derived id (its virtual and physical path unchanged), the
\* embedding table holds exactly one row with that id.
C2_OneEmbeddingRowPerIndexedDocument ==
    \A r \in pagetable :
       \A g \in indexed :
          g.id = EmbeddingId(r) /\ g.runs >= 2 =>
             Cardinality({i \in 1..Len(tables[DocumentTable].rows) :
                             tables[DocumentTable].rows[i].id = g.id}) = 1

(***************************************************************************)
(* Claims about error accounting                                           *)
(***************************************************************************)
\* C11: scan_markdown_files returns Ok whatever fails for single files;
\* every candidate is in exactly one of the scanned list and the error
\* listing, a scanned candidate has a pagetable row, and scanned + failed is
\* the number of candidates.
C11_EveryCandidateScannedOrFailed ==
    ret.op = "scan_markdown_files" =>
       /\ ret.ok
       /\ \A t \in ret.candidates :
             (t \in ret.scanned) # (\E e \in ret.errors : e.task = t)
       /\ \A t \in ret.scanned : \E r \in pagetable : r.path = t.path
       /\ \A e1, e2 \in ret.errors : e1.task = e2.task => e1 = e2
       /\ ret.scanned \subseteq ret.candidates
       /\ \A e \in ret.errors : e.task \in ret.candidates
       /\ Cardinality(ret.scanned) + Cardinality(ret.errors) = Cardinality(ret.candidates)

\* a scan of two notes where one was stored and the insert of the other failed
C11_Witness ==
    /\ ret.op = "scan_markdown_files"
    /\ Cardinality(ret.candidates) = 2
    /\ Cardinality(ret.scanned) = 1
    /\ \E e \in ret.errors : e.msg = "DB insert error"

\* C12: index_markdown_files returns Ok having attempted every selected
\* document: processed is the number of selected documents and succeeded +
\* failed is processed, whatever failed on the way.
C12_EveryDocumentAttempted ==
    ret.op = "index_markdown_files" =>
       /\ ret.ok
       /\ ret.processed = ret.selected
       /\ ret.succeeded + ret.failed = ret.processed

\* a run over two documents, the first failed and the second was stored
C12_Witness ==
    /\ ret.op = "index_markdown_files"
    /\ ret.selected = 2
    /\ ret.failed = 1
    /\ ret.succeeded = 1
    /\ \E i \in 1..Len(tables[DocumentTable].rows) :
          \E r \in pagetable :
             /\ tables[DocumentTable].rows[i].id = EmbeddingId(r)
             /\ r = get_file_tree(pagetable)[Cardinality(pagetable)]

(***************************************************************************)
(* Claims about the configuration                                          *)
(***************************************************************************)
\* the (vault, root) pairs of a set of configured vaults
C13_Roots(names) ==
    UNION {IF config.vaults.map[n].paths.some
           THEN {<<n, p>> : p \in Range(config.vaults.map[n].paths.val)}
           ELSE {} : n \in names}

\* C13: the Scanner of from_config scans the roots of exactly the vaults
\* flagged default when a vault is flagged default, and the roots of every
\* configured vault only when none is.
C13_DefaultVaultsElseAll ==
    ret.op = "from_config" =>
       LET flagged == {n \in DOMAIN config.vaults.map : config.vaults.map[n].default = "true"}
           scanned == UNION {{<<scanner.vaults[i].name, p>> :
                                 p \in Range(scanner.vaults[i].paths)} :
                             i \in DOMAIN scanner.vaults}
       IN IF flagged # {}
          THEN scanned = C13_Roots(flagged)
          ELSE scanned = C13_Roots(DOMAIN config.vaults.map)

(***************************************************************************)
(* Claims about the table lifecycle (checked under SpecStore)              *)
(***************************************************************************)
\* C14: create_table on a table that exists returns Ok and leaves the rows
\* and the index state of the table as they were, so repeated calls are
\* equivalent to one.
C14_CreateTableIdempotent ==
    [][\A t \in TableNames :
          res'.op = "create_table" /\ res'.table = t /\ table_exists(tables[t]) =>
             res'.ok /\ tables'[t] = tables[t]]_vars

\* create_table has returned for a table that holds rows
C14_Witness ==
    /\ res.op = "create_table"
    /\ res.ok
    /\ Len(tables[res.table].rows) >= 2
    /\ tables[res.table].indexTriggers = 1

\* C15: table_exists is false initially; it is true after create_table and
\* after a non-empty add_embeddings, false after a drop_table, and no other
\* call changes it: an empty add_embeddings, a delete_embeddings, a
\* similarity_search or a failed drop_table on an absent table does not
\* create it.
C15_TableExistsIffCreatedAndNotDropped ==
    /\ \A t \in TableNames : ~table_exists(tables[t])
    /\ [][\A t \in TableNames :
             res'.table = t =>
                table_exists(tables'[t]) =
                   CASE res'.op = "create_table" -> TRUE
                     [] res'.op = "add_embeddings" ->
                           (res'.batch # <<>> \/ table_exists(tables[t]))
                     [] res'.op = "drop_table" -> FALSE
                     [] OTHER -> table_exists(tables[t])]_vars

\* a table that held rows has been dropped
C15_Witness ==
    /\ res.op = "drop_table"
    /\ res.ok
    /\ ~table_exists(tables[res.table])

\* C19: no two rows of an embedding table have the same id, whatever
\* add_embeddings and delete_embeddings calls were made.
C19_IdIsUniqueKey ==
    \A t \in TableNames :
       \A i, j \in 1..Len(tables[t].rows) :
          tables[t].rows[i].id = tables[t].rows[j].id => i = j

(***************************************************************************)
(* Claims about the lexical index                                          *)
(***************************************************************************)
\* C16: a call of index_all_documents leaves in the lexical index exactly one
\* document for each pagetable row (each is a markdown document stored by the
\* markdown scan) whose file can be read, and nothing else.
C16_IndexHoldsEveryReadableMarkdownRow ==
    [][ret'.op = "index_all_documents" /\ disk' = disk /\ pagetable' = pagetable =>
          LET readable == {r.path : r \in {x \in pagetable :
                              \E f \in disk : f.path = x.path /\ IsText(f.content)}}
          IN /\ \A p \in readable :
                   Cardinality({i \in 1..Len(search_index') : search_index'[i].path = p}) = 1
             /\ \A i \in 1..Len(search_index') : search_index'[i].path \in readable]_vars

(***************************************************************************)
(* Claims about stale records (checked under SpecLifecycle)                *)
(***************************************************************************)
\* C17: a step that is not a cleanup pass removes no pagetable row (a scan
\* may update it), and a cleanup pass leaves exactly the rows whose file
\* exists, unchanged.
C17_RowsRemovedOnlyByCleanupOfMissingFiles ==
    [][IF ret'.op = "cleanup_stale_records" /\ disk' = disk
       THEN pagetable' = {r \in pagetable : \E f \in disk : f.path = r.path}
       ELSE \A r \in pagetable :
               \E r2 \in pagetable' : r2.id = r.id /\ r2.path = r.path]_vars

\* a cleanup pass has removed the row of a note that is gone and kept the
\* row of a note that is there
C17_Witness ==
    /\ ret.op = "cleanup_stale_records"
    /\ \E r \in pagetable : \E f \in disk : f.path = r.path
    /\ \E g \in lastPage :
          /\ \A r \in pagetable : r.path # g.path
          /\ \A f \in disk : f.path # g.path

\* the physical_path entry of the metadata of an embedding row
C18_PhysicalPath(row) ==
    LET md == FromJson(row.metadata_json)
    IN IF "physical_path" \in DOMAIN md THEN md["physical_path"] ELSE <<>>

\* C18: when an index run has returned and a document is neither on disk nor
\* in pagetable (it was removed, and the cleanup pass removed its row before
\* the run), the embedding store holds no row whose physical_path is that
\* document.
C18_NoEmbeddingOfCleanedDocument ==
    ret.op = "index_markdown_files" =>
       \A w \in LifecycleWritten :
          (\A f \in disk : f.path # w.path) /\ (\A r \in pagetable : r.path # w.path) =>
             \A i \in 1..Len(tables[DocumentTable].rows) :
                C18_PhysicalPath(tables[DocumentTable].rows[i]) # w.path

\* C20: a call of get_page_content with the virtual path of a row whose file
\* can be read returns the content of that file and the metadata of that row,
\* for every such row; a call with a virtual path no row has returns an error
C20_FetchReturnsFileAndMetadataOfRow ==
    [][ret'.op = "get_page_content" /\ disk' = disk /\ pagetable' = pagetable =>
          /\ \A r \in pagetable :
                (/\ r.virtualPath = ret'.virtual_path
                 /\ \E f \in disk : f.path = r.path /\ IsText(f.content)) =>
                   /\ ret'.ok
                   /\ ret'.content = FileAt(disk, r.path).content
                   /\ ret'.metadata = r.metadata
          /\ (\A r \in pagetable : r.virtualPath # ret'.virtual_path) => ~ret'.ok]_vars

\* C30: when scan_images has returned, no file is both counted as scanned and
\* reported as an error
C30_ScannedImagesAndErrorsDisjoint ==
    ret.op = "scan_images" => \A e \in ret.errors : e.task \notin ret.scanned

\* C27: an index run selects every page of pagetable: all of them were stored
\* by scan_markdown_files, one row per physical path
C27_IndexerSelectsEveryScannedPage ==
    [][ret'.op = "index_markdown_files" /\ pagetable' = pagetable =>
          ret'.selected = Cardinality(pagetable)]_vars

\* C23: whenever extract_relevant_snippet returns a snippet for a non-empty
\* list of query terms, the snippet is at most max_length long
C23_SnippetWithinMaxLength ==
    (/\ ret.op = "extract_relevant_snippet"
     /\ input.query_terms # <<>>
     /\ ret.out.kind = "some") => Len(ret.out.val) <= input.max_length

\* x = round(a / b) for whole a >= 0 and b > 0, halves rounded up
C25_IsRounded(x, a, b) == (2 * x - 1) * b <= 2 * a /\ 2 * a < (2 * x + 1) * b

\* p = clamp(round(sqrt(n)), 10, 1000)
C25_IsPartitionCount(p, n) ==
    \E r \in 0..MaxRoot :
       /\ r = 0 \/ (2 * r - 1) * (2 * r - 1) <= 4 * n
       /\ 4 * n < (2 * r + 1) * (2 * r + 1)
       /\ p = Clamp(r, 10, 1000)

\* the row count drawn next below n, or n when none is
C25_Below(n) ==
    LET below == {m \in RowCounts : m < n}
    IN IF below = {} THEN n ELSE CHOOSE m \in below : \A k \in below : k <= m

\* C25: estimate_partition_count(row_count) is clamp(round(sqrt(row_count)),
\* 10, 1000), calculate_optimal_nprobes(row_count) is clamp(round(0.10 * that
\* partition count), 10, 100); partitions lie in 10..1000, probes in 10..100,
\* and neither is below its value for the next smaller row count
C25_PartitionsAndProbes ==
    /\ ret.op = "estimate_partition_count" =>
          /\ C25_IsPartitionCount(ret.out, input.row_count)
          /\ ret.out \in 10..1000
          /\ estimate_partition_count(C25_Below(input.row_count)) <= ret.out
    /\ ret.op = "calculate_optimal_nprobes" =>
          /\ \E p \in 10..1000 :
                /\ C25_IsPartitionCount(p, input.row_count)
                /\ \E q \in 0..101 : C25_IsRounded(q, p, 10) /\ ret.out = Clamp(q, 10, 100)
          /\ ret.out \in 10..100
          /\ calculate_optimal_nprobes(C25_Below(input.row_count)) <= ret.out

\* a probe count that is not at a bound of its range, from a partition count
\* that is not at a bound of its range either
C25_Witness == ret.op = "calculate_optimal_nprobes" /\ ret.out \in 11..99

\* C29: two rows of pagetable that differ in virtual path or physical path
\* have different embedding ids
C29_EmbeddingIdInjective ==
    \A r1, r2 \in pagetable :
       <<r1.virtualPath, r1.path>> # <<r2.virtualPath, r2.path>> =>
          EmbeddingId(r1) # EmbeddingId(r2)

\* the documents of the index whose path is `path`
C26_DocsOf(docs, path) == {i \in 1..Len(docs) : docs[i].path = path}

\* C26: after update_document(path) has returned Ok, the index holds exactly
\* one document of that path, with the current content of the file, when the
\* path ends in .md and the file exists, and none otherwise
C26_UpdateLeavesAtMostOneDocument ==
    [][ret'.op = "update_document" /\ ret'.ok /\ disk' = disk =>
          IF EndsWith(ret'.path, <<DOT, "md">>) /\ \E f \in disk : f.path = ret'.path
          THEN \E i \in 1..Len(search_index') :
                  /\ C26_DocsOf(search_index', ret'.path) = {i}
                  /\ search_index'[i].body = FileAt(disk, ret'.path).content
          ELSE C26_DocsOf(search_index', ret'.path) = {}]_vars

\* C21: with vault main, indicator main and the files main/a.md and main/b.md,
\* a scan leaves exactly two rows in pagetable, with the virtual paths a.md and
\* b.md; and once the lexical index is built from them, a search for wiki
\* returns exactly a.md, with a snippet that is not empty and holds wiki
C21_ScenarioScanAndSearch ==
    [][(disk' = disk /\ disk = ScenarioFiles) =>
          /\ ret'.op = "scan_markdown_files" =>
                /\ Cardinality(pagetable') = 2
                /\ {r.virtualPath : r \in pagetable'}
                      = {<<"a", DOT, "md">>, <<"b", DOT, "md">>}
          /\ (/\ ret'.op = "search"
              /\ ret'.out.query_str = <<"wiki">>
              /\ Cardinality(pagetable) = 2
              /\ Len(search_index) = 2) =>
                /\ {r.path : r \in ret'.out.results} = {MainA}
                /\ Cardinality(ret'.out.results) = 1
                /\ \A r \in ret'.out.results :
                      /\ r.snippet.some
                      /\ r.snippet.val # <<>>
                      /\ "wiki" \in Range(r.snippet.val)]_vars

\* the search for wiki has returned a result while both files are indexed
C21_Witness ==
    /\ ret.op = "search"
    /\ ret.out.query_str = <<"wiki">>
    /\ ret.out.results # {}
    /\ disk = ScenarioFiles
    /\ Len(search_index) = 2

\* the fields of the rows that a scan writes, without the surrogate id
C22_Fields(rows) ==
    {[vault |-> r.vault, path |-> r.path, virtualPath |-> r.virtualPath,
      metadata |-> r.metadata, last_modified |-> r.last_modified, created |-> r.created] :
        r \in rows}

\* C22: whatever the order in which the workers of a scan_markdown_files run
\* take the lock, the rows of pagetable after the run are those that the same
\* tasks leave when they are processed one at a time in task order
C22_ScanAsIfInTaskOrder ==
    [][ret'.op = "scan_markdown_files" /\ disk' = disk =>
          LET tasks == ScanTasks(disk, MarkdownExts)
              st == MarkdownTasks(TaskOrder(tasks), 1, disk, [t \in tasks |-> "none"],
                                  [db |-> [rows |-> pagetable, seq |-> pageSeq],
                                   last |-> lastPage, scanned |-> {}, errors |-> {}])
          IN C22_Fields(pagetable') = C22_Fields(st.db.rows)]_vars

C28_CompletionLineSumsToTotal ==
    progress.completion # <<>> =>
        progress.completion.succeeded + progress.completion.failed = progress.completion.total

====
